---- MODULE Spec2Model ----
(***************************************************************************)
(* Model of the livepublication data producer: tessellation of an AOI     *)
(* into provider-safe tiles, per-tile orbit discovery and selection,      *)
(* raster retrieval, mosaic stitching and the time-series job loop.       *)
(*                                                                         *)
(* Coordinates are integers in units of 1/(111320*100) degree, so that    *)
(* tile_size_deg = (1/111320) * resolution * max_dim * buffer is the      *)
(* integer resolution * max_dim * buffer with buffer given in hundredths. *)
(* Arithmetic is exact; the rounding of binary floating point is not      *)
(* modelled.                                                               *)
(***************************************************************************)
EXTENDS Integers, Sequences, FiniteSets, TLC

VARIABLES
    aoi,            \* [min_lon, min_lat, max_lon, max_lat] given to generate_safe_tiles
    tparams,        \* [resolution, max_dim, buffer] given to generate_safe_tiles
    tiles,          \* list of tile bboxes returned by generate_safe_tiles
    tile_info,      \* list of (filename, bbox) of the rasters that were saved
    failed_tiles,   \* list of (index, bbox) of the tiles whose retrieval failed
    raw_tiles,      \* the raw_tiles directories: (job_id, filename) -> saved raster
    stitched,       \* what stitch_tiles / stitch_raw_tile_data returned
    profile,        \* the job configuration in use (region, job_id, bbox, strategy)
    timeseries_jobs,\* the sub-jobs of the time series, in order
    job_no,         \* position of the job loop in timeseries_jobs
    tile_metadata,  \* ordered mapping tile_prefix -> discovered orbit metadata
    selected_orbits,\* ordered mapping tile_prefix -> selected orbit
    best_orbit,     \* what a single call of select_best_orbit returned
    outputs,        \* the other files of the output directories: (job_id, name) -> content
    raised,         \* the exception that left the function or the script, "" if none
    ndvi_input,     \* the mosaic given to compute_ndvi: pixel -> band index -> value
    ndvi,           \* what compute_ndvi returned: pixel -> value
    intervals,      \* what generate_time_intervals returned: list of (start, end)
    requests,       \* the raster requests issued by the last retrieval, in order
    phase           \* position of the harness or of the job loop

vars == <<aoi, tparams, tiles, tile_info, failed_tiles, raw_tiles, stitched, profile,
          timeseries_jobs, job_no, tile_metadata, selected_orbits, best_orbit,
          outputs, raised, ndvi_input, ndvi, intervals, requests, phase>>


----------------------------------------------------------------------------
(* Bounds of the model. *)

\* AOI extents are k * tile_size / ExtSub for k in 1..MaxExt
ExtSub == 2
MaxExt == 5
\* pixels of a synthetic raster along a full tile edge
FullPx == 2
\* stitch_tiles on its own: number of tile rasters and their pixel extents
MaxStitchTiles == 3
MaxPx == 2

(* Inputs of generate_safe_tiles *)
Resolutions == {1, 10}
MaxDims == {10, 2500}
Buffers == {95, 100}
Origins == {<<0, 0>>, <<-1500, -700>>}

----------------------------------------------------------------------------
(* Helpers *)

Max(a, b) == IF a >= b THEN a ELSE b
Min(a, b) == IF a <= b THEN a ELSE b
Abs(a) == IF a < 0 THEN -a ELSE a
CeilDiv(a, b) == (a + b - 1) \div b

RECURSIVE SumSeq(_)
SumSeq(s) == IF s = <<>> THEN 0 ELSE Head(s) + SumSeq(Tail(s))

RECURSIVE MaxSeq(_)
MaxSeq(s) == IF Len(s) = 1 THEN s[1] ELSE Max(Head(s), MaxSeq(Tail(s)))

\* bbox accessors (sentinelhub BBox: min_x, min_y, max_x, max_y)
min_x(b) == b[1]
min_y(b) == b[2]
max_x(b) == b[3]
max_y(b) == b[4]

----------------------------------------------------------------------------
(* Tessellation: tile_utils.generate_safe_tiles *)

\* degrees_per_meter * resolution * max_dim * buffer, in model units
tile_size_deg(resolution, max_dim, buffer) == resolution * max_dim * buffer

\* a plausible slip: the stop value is included, as with np.linspace
ARange_with_stop(start, stop, step) ==
    IF stop < start THEN <<>>
    ELSE [i \in 1..((stop - start) \div step + 1) |-> start + (i - 1) * step]

\* np.arange(start, stop, step): start + i*step for i < ceil((stop-start)/step)
ARange(start, stop, step) ==
    IF stop <= start THEN <<>>
    ELSE [i \in 1..CeilDiv(stop - start, step) |-> start + (i - 1) * step]

\* a plausible slip: the tile is not clamped to the AOI's maximum bounds
generate_safe_tiles_unclamped(a, resolution, max_dim, buffer) ==
    LET size == tile_size_deg(resolution, max_dim, buffer)
        lon_steps == ARange(a[1], a[3], size)
        lat_steps == ARange(a[2], a[4], size)
        nlat == Len(lat_steps)
    IN  [k \in 1..(Len(lon_steps) * nlat) |->
            LET lon == lon_steps[((k - 1) \div nlat) + 1]
                lat == lat_steps[((k - 1) % nlat) + 1]
            IN  <<lon, lat, lon + size, lat + size>>]

\* a plausible slip: the loops are nested the other way round, longitude inside
\* latitude
generate_safe_tiles_lon_inner(a, resolution, max_dim, buffer) ==
    LET size == tile_size_deg(resolution, max_dim, buffer)
        lon_steps == ARange(a[1], a[3], size)
        lat_steps == ARange(a[2], a[4], size)
        nlon == Len(lon_steps)
    IN  [k \in 1..(nlon * Len(lat_steps)) |->
            LET lon == lon_steps[((k - 1) % nlon) + 1]
                lat == lat_steps[((k - 1) \div nlon) + 1]
            IN  <<lon, lat, Min(lon + size, a[3]), Min(lat + size, a[4])>>]

\* for lon in lon_steps: for lat in lat_steps: append the clamped tile
generate_safe_tiles(a, resolution, max_dim, buffer) ==
    LET size == tile_size_deg(resolution, max_dim, buffer)
        lon_steps == ARange(a[1], a[3], size)
        lat_steps == ARange(a[2], a[4], size)
        nlat == Len(lat_steps)
    IN  [k \in 1..(Len(lon_steps) * nlat) |->
            LET lon == lon_steps[((k - 1) \div nlat) + 1]
                lat == lat_steps[((k - 1) % nlat) + 1]
            IN  <<lon, lat, Min(lon + size, a[3]), Min(lat + size, a[4])>>]

----------------------------------------------------------------------------
(* Rasters.  A raster is [h, w, bands, val, varied]: an array of shape     *)
(* (h, w, bands); when varied is FALSE every value equals val, otherwise   *)
(* the values differ and val only tags the raster.                         *)

Raster(h, w, bands, val, varied) ==
    [h |-> h, w |-> w, bands |-> bands, val |-> val, varied |-> varied]

\* abs(lat - current_lat) < epsilon with epsilon = 1e-4 degree = 1113.2 units
EpsilonTenths == 11132
WithinEpsilon(lat, current_lat) == Abs(lat - current_lat) * 10 < EpsilonTenths

----------------------------------------------------------------------------
(* Stitching: image_utils.stitch_tiles *)

\* a plausible slip: the latitude is not negated, so that rows run bottom to top
KeyLess_ascending_lat(a, b) ==
    \/ min_y(a[2]) < min_y(b[2])
    \/ min_y(a[2]) = min_y(b[2]) /\ min_x(a[2]) < min_x(b[2])

\* a plausible slip: the key is the latitude alone, so that the stable sort
\* leaves tiles of one latitude in their order of arrival
KeyLess_lat_only(a, b) == min_y(a[2]) > min_y(b[2])

\* key=lambda t: (-t[1].min_y, t[1].min_x), compared as Python compares tuples
KeyLess(a, b) ==
    \/ min_y(a[2]) > min_y(b[2])
    \/ min_y(a[2]) = min_y(b[2]) /\ min_x(a[2]) < min_x(b[2])

RECURSIVE InsertSorted(_, _)
InsertSorted(x, s) ==
    IF s = <<>> THEN <<x>>
    ELSE IF KeyLess(x, Head(s)) THEN <<x>> \o s
    ELSE <<Head(s)>> \o InsertSorted(x, Tail(s))

\* sorted(tile_coords, key=...): a stable sort
RECURSIVE SortTiles(_)
SortTiles(s) ==
    IF s = <<>> THEN <<>>
    ELSE InsertSorted(s[Len(s)], SortTiles(SubSeq(s, 1, Len(s) - 1)))

\* the grouping loop: rows of filenames
RECURSIVE GroupRowsFrom(_, _, _, _, _)
GroupRowsFrom(sorted, i, rows, current_row, current_lat) ==
    IF i > Len(sorted)
    THEN IF current_row # <<>> THEN Append(rows, current_row) ELSE rows
    ELSE LET fname == sorted[i][1]
             lat == min_y(sorted[i][2])
         IN  IF i = 1 \/ WithinEpsilon(lat, current_lat)
             THEN GroupRowsFrom(sorted, i + 1, rows, Append(current_row, fname), lat)
             ELSE GroupRowsFrom(sorted, i + 1, Append(rows, current_row), <<fname>>, lat)

GroupRows(tile_coords) == GroupRowsFrom(SortTiles(tile_coords), 1, <<>>, <<>>, 0)

\* one entry of final_rows: the tiles of a row resized to the row's maximum
\* height and concatenated along axis 1
BuildRow(tile_dir, row) ==
    LET tile_row == [k \in 1..Len(row) |-> tile_dir[row[k]]]
        max_height == MaxSeq([k \in 1..Len(row) |-> tile_row[k].h])
    IN  [ok     |-> \A k \in 1..Len(row) : tile_row[k].bands = tile_row[1].bands,
         height |-> max_height,
         width  |-> SumSeq([k \in 1..Len(row) |-> tile_row[k].w]),
         bands  |-> tile_row[1].bands,
         segs   |-> [k \in 1..Len(row) |->
                        [val |-> tile_row[k].val, w |-> tile_row[k].w,
                         h |-> tile_row[k].h, fname |-> row[k]]]]

StitchError == [status |-> "ValueError", shape |-> <<0, 0, 0>>, rows |-> <<>>]

\* a plausible slip: the mosaic is cropped to the narrowest row
stitch_tiles_min_width(tile_dir, tile_coords) ==
    LET rows == GroupRows(tile_coords)
        final_rows == [r \in 1..Len(rows) |-> BuildRow(tile_dir, rows[r])]
    IN  IF tile_coords = <<>> THEN StitchError
        ELSE [status |-> "ok",
              shape  |-> <<SumSeq([r \in 1..Len(rows) |-> final_rows[r].height]),
                           -MaxSeq([r \in 1..Len(rows) |-> -final_rows[r].width]),
                           final_rows[1].bands>>,
              rows   |-> final_rows]

\* stitch_tiles: np.concatenate raises ValueError when the band counts (or,
\* with no tile at all, max() of an empty sequence) do not allow the result
stitch_tiles(tile_dir, tile_coords) ==
    LET rows == GroupRows(tile_coords)
        final_rows == [r \in 1..Len(rows) |-> BuildRow(tile_dir, rows[r])]
        max_width == MaxSeq([r \in 1..Len(rows) |-> final_rows[r].width])
    IN  IF tile_coords = <<>> THEN StitchError
        ELSE IF \E r \in 1..Len(rows) :
                    ~final_rows[r].ok \/ final_rows[r].bands # final_rows[1].bands
        THEN StitchError
        ELSE [status |-> "ok",
              shape  |-> <<SumSeq([r \in 1..Len(rows) |-> final_rows[r].height]),
                           max_width,
                           final_rows[1].bands>>,
              rows   |-> final_rows]

\* where the pixels holding value v sit in a mosaic: their row of tiles and
\* their place in that row
RowOfVal(m, v) == CHOOSE r \in 1..Len(m.rows) :
                    \E c \in 1..Len(m.rows[r].segs) : m.rows[r].segs[c].val = v
ColOfVal(m, v) == CHOOSE c \in 1..Len(m.rows[RowOfVal(m, v)].segs) :
                    m.rows[RowOfVal(m, v)].segs[c].val = v

NoImage == [status |-> "None", shape |-> <<0, 0, 0>>, rows |-> <<>>]
EmptyDir == [f \in {} |-> 0]

\* a plausible slip: the mosaic is returned and saved without the guard and
\* the handler
stitch_raw_tile_data_unguarded(tile_dir, info) ==
    [image |-> stitch_tiles(tile_dir, info), saved |-> TRUE]

\* stitch_raw_tile_data: None when tile_info is empty or stitch_tiles raises;
\* otherwise the mosaic, saved as stitched_raw_bands.npy
stitch_raw_tile_data(tile_dir, info) ==
    IF info = <<>> THEN [image |-> NoImage, saved |-> FALSE]
    ELSE LET stitched_array == stitch_tiles(tile_dir, info)
         IN  IF stitched_array.status # "ok" THEN [image |-> NoImage, saved |-> FALSE]
             ELSE [image |-> stitched_array, saved |-> TRUE]

\* a file of a job's output directory: outputs/<job_id>/<dir>/<prefix>_<name>
NoTile == <<"", 0>>
OutFile(job_id, dir, tile_prefix, name) == <<job_id, dir, tile_prefix, name>>

\* paths["raw_tiles"] of a job: the files of its raw_tiles directory
RawTilesDir(job_id) ==
    [f \in {p[2] : p \in {q \in DOMAIN raw_tiles : q[1] = job_id}} |-> raw_tiles[<<job_id, f>>]]

\* np.save of the rasters `saved` (filename -> raster) into a job's raw_tiles directory
SaveRasters(job_id, saved) ==
    [p \in {<<job_id, f>> : f \in DOMAIN saved} |-> saved[p[2]]] @@ raw_tiles

\* f"{prefix}_{i:03}.npy"
NpyName(prefix, i) == <<prefix, i>>

\* the variables of the job loop, at rest while a single function is exercised
HarnessJob == <<"job">>
NoProfile == [region |-> <<"none">>, bbox |-> <<0, 0, 0, 0>>, resolution |-> 10,
              time_interval |-> <<0, 0>>, orbit_selection_strategy |-> "least_cloud",
              job_id |-> HarnessJob, parent_job_id |-> <<>>]
NoOrbit == [status |-> "None", strategy |-> "", orbit_date |-> 0, product_ids |-> <<>>,
            cloud_coverage |-> 0, orbit |-> 0]
JobLoopAtRest ==
    /\ profile = NoProfile
    /\ timeseries_jobs = <<>>
    /\ job_no = 0
    /\ tile_metadata = <<>>
    /\ selected_orbits = <<>>
    /\ failed_tiles = <<>>
    /\ best_orbit = NoOrbit
    /\ outputs = EmptyDir
    /\ raised = ""
    /\ ndvi_input = <<>>
    /\ ndvi = <<>>
    /\ intervals = <<>>
    /\ requests = <<>>
jobvars == <<profile, timeseries_jobs, job_no, tile_metadata, selected_orbits,
             failed_tiles, best_orbit, outputs, raised, ndvi_input, ndvi, intervals,
             requests>>

----------------------------------------------------------------------------
(* Round trip harness: tessellate, retrieve synthetic rasters, stitch *)

AoiInputs(size) ==
    {<<o[1], o[2], o[1] + (kx * size) \div ExtSub, o[2] + (ky * size) \div ExtSub>> :
        o \in Origins, kx \in 1..MaxExt, ky \in 1..MaxExt}

InitTiles ==
    /\ tparams \in [resolution : Resolutions, max_dim : MaxDims, buffer : Buffers]
    /\ aoi \in AoiInputs(tile_size_deg(tparams.resolution, tparams.max_dim, tparams.buffer))
    /\ tiles = <<>>
    /\ tile_info = <<>>
    /\ raw_tiles = EmptyDir
    /\ stitched = NoImage
    /\ JobLoopAtRest
    /\ phase = "input"

Tessellate ==
    /\ phase = "input"
    /\ tiles' = generate_safe_tiles(aoi, tparams.resolution, tparams.max_dim, tparams.buffer)
    /\ phase' = "tiled"
    /\ UNCHANGED <<aoi, tparams, tile_info, raw_tiles, stitched, jobvars>>

\* pixel extent of a tile's raster, proportional to the tile's extent
SyntheticPx(extent, size) == Max(1, CeilDiv(extent * FullPx, size))

\* every tile is retrieved as a raster filled with the tile's index
SyntheticRetrieve ==
    /\ phase = "tiled"
    /\ LET size == tile_size_deg(tparams.resolution, tparams.max_dim, tparams.buffer)
       IN  /\ tile_info' = [k \in 1..Len(tiles) |-> <<NpyName("tile", k - 1), tiles[k]>>]
           /\ raw_tiles' = SaveRasters(HarnessJob,
                    [f \in {NpyName("tile", k - 1) : k \in 1..Len(tiles)} |->
                        LET t == tiles[f[2] + 1]
                        IN  Raster(SyntheticPx(max_y(t) - min_y(t), size),
                                   SyntheticPx(max_x(t) - min_x(t), size),
                                   3, f[2], FALSE)])
    /\ phase' = "retrieved"
    /\ UNCHANGED <<aoi, tparams, tiles, stitched, jobvars>>

StitchTiles ==
    /\ phase = "retrieved"
    /\ stitched' = stitch_tiles(RawTilesDir(HarnessJob), tile_info)
    /\ phase' = "stitched"
    /\ UNCHANGED <<aoi, tparams, tiles, tile_info, raw_tiles, jobvars>>

NextTiles == Tessellate \/ SyntheticRetrieve \/ StitchTiles

SpecTiles == InitTiles /\ [][NextTiles]_vars

----------------------------------------------------------------------------
(* C1 *)

Inside(t, a) ==
    /\ a[1] <= min_x(t) /\ min_x(t) < max_x(t) /\ max_x(t) <= a[3]
    /\ a[2] <= min_y(t) /\ min_y(t) < max_y(t) /\ max_y(t) <= a[4]

InteriorsOverlap(s, t) ==
    /\ min_x(s) < max_x(t) /\ min_x(t) < max_x(s)
    /\ min_y(s) < max_y(t) /\ min_y(t) < max_y(s)

\* the grid lines induced by the AOI and the tiles, and its elementary cells
XLines(a, ts) == {a[1], a[3]} \cup {min_x(ts[k]) : k \in 1..Len(ts)}
                              \cup {max_x(ts[k]) : k \in 1..Len(ts)}
YLines(a, ts) == {a[2], a[4]} \cup {min_y(ts[k]) : k \in 1..Len(ts)}
                              \cup {max_y(ts[k]) : k \in 1..Len(ts)}
Adjacent(S) == {p \in S \X S : p[1] < p[2] /\ ~\E z \in S : p[1] < z /\ z < p[2]}

CoversAoi(a, ts) ==
    \A cx \in Adjacent(XLines(a, ts)), cy \in Adjacent(YLines(a, ts)) :
        (a[1] <= cx[1] /\ cx[2] <= a[3] /\ a[2] <= cy[1] /\ cy[2] <= a[4])
        => \E k \in 1..Len(ts) :
                /\ min_x(ts[k]) <= cx[1] /\ cx[2] <= max_x(ts[k])
                /\ min_y(ts[k]) <= cy[1] /\ cy[2] <= max_y(ts[k])

ExactPartition(a, ts) ==
    /\ \A k \in 1..Len(ts) : Inside(ts[k], a)
    /\ \A i, j \in 1..Len(ts) : i # j => ~InteriorsOverlap(ts[i], ts[j])
    /\ CoversAoi(a, ts)

\* C1: for every AOI with min_lon < max_lon and min_lat < max_lat and all
\* positive tile parameters, the tiles returned by generate_safe_tiles lie
\* inside the AOI, do not overlap in their interiors and cover the AOI.
C1_TilesPartitionAoi ==
    (phase # "input" /\ aoi[1] < aoi[3] /\ aoi[2] < aoi[4])
        => ExactPartition(aoi, tiles)

\* a tessellation of several rows and columns whose last row and column are clamped
C1_Witness ==
    /\ phase = "tiled"
    /\ Len(tiles) >= 6
    /\ \E k \in 1..Len(tiles) : max_x(tiles[k]) = aoi[3]
            /\ max_x(tiles[k]) - min_x(tiles[k])
                 < tile_size_deg(tparams.resolution, tparams.max_dim, tparams.buffer)
    /\ \E k \in 1..Len(tiles) : max_y(tiles[k]) = aoi[4]
            /\ max_y(tiles[k]) - min_y(tiles[k])
                 < tile_size_deg(tparams.resolution, tparams.max_dim, tparams.buffer)

----------------------------------------------------------------------------
(* C4 *)

\* the mosaic shows the tiles (found by the index their pixels hold) in their
\* relative geographic positions
RelativePositionsKept ==
    /\ stitched.status = "ok"
    /\ \A i, j \in 1..Len(tiles) :
        /\ min_y(tiles[i]) > min_y(tiles[j])
              => RowOfVal(stitched, i - 1) < RowOfVal(stitched, j - 1)
        /\ min_y(tiles[i]) = min_y(tiles[j])
              => RowOfVal(stitched, i - 1) = RowOfVal(stitched, j - 1)
        /\ min_x(tiles[i]) < min_x(tiles[j])
              => ColOfVal(stitched, i - 1) < ColOfVal(stitched, j - 1)
        /\ min_x(tiles[i]) = min_x(tiles[j])
              => ColOfVal(stitched, i - 1) = ColOfVal(stitched, j - 1)

TileEdgeAtLeastEpsilon ==
    tile_size_deg(tparams.resolution, tparams.max_dim, tparams.buffer) * 10 >= EpsilonTenths

\* C4 as stated: for every AOI (and all tile parameters) the round trip
\* tessellate, retrieve rasters filled with the tile index, stitch keeps every
\* tile in its relative geographic position.
C4_RoundTripEveryAoi == phase = "stitched" => RelativePositionsKept

\* C4 amended: the round trip keeps every tile in its relative geographic
\* position whenever the tile edge length is at least the row-grouping
\* epsilon of 1e-4 degree (as it is with the default parameters).
C4_RoundTripAboveEpsilon ==
    (phase = "stitched" /\ TileEdgeAtLeastEpsilon) => RelativePositionsKept

\* a stitched tessellation of at least two rows and two columns
C4_Witness ==
    /\ phase = "stitched"
    /\ TileEdgeAtLeastEpsilon
    /\ stitched.status = "ok"
    /\ Len(stitched.rows) >= 2
    /\ Len(stitched.rows[1].segs) >= 2

----------------------------------------------------------------------------
(* stitch_tiles on arbitrary tile rasters *)

\* minimum latitudes: the first two differ by less than epsilon
StitchLats == {0, 1000, 250000}
StitchLons == {0, 237500}
StitchBBoxes == {<<x, y, x + 237500, y + 237500>> : x \in StitchLons, y \in StitchLats}
ShapeChoices == {<<1, 1>>, <<MaxPx, 1>>, <<1, MaxPx>>}
BandChoices == {3, 6}

InitStitch ==
    /\ aoi = <<0, 0, 0, 0>>
    /\ tparams = [resolution |-> 10, max_dim |-> 2500, buffer |-> 95]
    /\ tiles = <<>>
    /\ \E n \in 1..MaxStitchTiles :
       \E bbs \in [1..n -> StitchBBoxes], shp \in [1..n -> ShapeChoices],
          b \in BandChoices, odd \in {0, 1} :
            /\ \A i, j \in 1..n : i # j => bbs[i] # bbs[j]
            /\ tile_info = [k \in 1..n |-> <<NpyName("tile", k - 1), bbs[k]>>]
            /\ raw_tiles = [p \in {<<HarnessJob, NpyName("tile", k - 1)>> : k \in 1..n} |->
                    Raster(shp[p[2][2] + 1][1], shp[p[2][2] + 1][2],
                           IF p[2][2] = 0 THEN b + odd ELSE b, p[2][2], TRUE)]
    /\ stitched = NoImage
    /\ JobLoopAtRest
    /\ phase = "retrieved"

\* stitch_raw_tile_data called on the same tile rasters
CallStitchRawTileData ==
    /\ phase = "retrieved"
    /\ LET got == stitch_raw_tile_data(RawTilesDir(HarnessJob), tile_info)
       IN  /\ stitched' = got.image
           /\ outputs' = IF got.saved
                         THEN [f \in {OutFile(HarnessJob, "stitched", NoTile,
                                              "stitched_raw_bands.npy")} |-> got.image]
                                  @@ outputs
                         ELSE outputs
    /\ phase' = "stitch_step_done"
    /\ UNCHANGED <<aoi, tparams, tiles, tile_info, failed_tiles, raw_tiles, profile,
                   timeseries_jobs, job_no, tile_metadata, selected_orbits, best_orbit,
                   raised>>
    /\ UNCHANGED <<ndvi_input, ndvi, intervals, requests>>

NextStitch == StitchTiles \/ CallStitchRawTileData

SpecStitch == InitStitch /\ [][NextStitch]_vars

----------------------------------------------------------------------------
(* C5 *)

TileRaster(fname) == raw_tiles[<<HarnessJob, fname>>]

UniformBands ==
    \A f, g \in DOMAIN raw_tiles : raw_tiles[f].bands = raw_tiles[g].bands

RowHeights == LET rows == GroupRows(tile_info)
              IN  [r \in 1..Len(rows) |->
                      MaxSeq([k \in 1..Len(rows[r]) |-> TileRaster(rows[r][k]).h])]
RowWidths == LET rows == GroupRows(tile_info)
             IN  [r \in 1..Len(rows) |->
                      SumSeq([k \in 1..Len(rows[r]) |-> TileRaster(rows[r][k]).w])]

TwoAdjacentEqualTiles ==
    /\ Len(tile_info) = 2
    /\ min_y(tile_info[1][2]) = min_y(tile_info[2][2])
    /\ TileRaster(tile_info[1][1]).h = TileRaster(tile_info[2][1]).h
    /\ TileRaster(tile_info[1][1]).w = TileRaster(tile_info[2][1]).w

\* C5: for every non-empty set of tile rasters with a uniform band count the
\* mosaic has height = sum over rows of the row's maximum tile height, width =
\* maximum over rows of the row's summed tile widths, and the inputs' band
\* count; two horizontally adjacent tiles of equal height and width W give a
\* mosaic of width 2W and the original height.
C5_MosaicShape ==
    (phase = "stitched" /\ tile_info # <<>> /\ UniformBands) =>
        /\ stitched.status = "ok"
        /\ stitched.shape = <<SumSeq(RowHeights), MaxSeq(RowWidths),
                              TileRaster(tile_info[1][1]).bands>>
        /\ TwoAdjacentEqualTiles =>
              stitched.shape = <<TileRaster(tile_info[1][1]).h,
                                 2 * TileRaster(tile_info[1][1]).w,
                                 TileRaster(tile_info[1][1]).bands>>

\* a mosaic of two rows of different widths, one row with tiles of different heights
C5_Witness ==
    /\ phase = "stitched"
    /\ UniformBands
    /\ stitched.status = "ok"
    /\ Len(stitched.rows) = 2
    /\ stitched.rows[1].width # stitched.rows[2].width
    /\ \E r \in 1..2 : \E c \in 1..Len(stitched.rows[r].segs) :
            stitched.rows[r].segs[c].h # stitched.rows[r].height

----------------------------------------------------------------------------
(* Orbit selection: metadata_utils.select_best_orbit                        *)
(*                                                                          *)
(* An orbit is [dateFrom, tiles]; dateFrom is <<day, time>>; a sub-scene of *)
(* tiles is [has_cloud, cloudCoverage, has_geometry, dataGeometry,          *)
(* productId].  A footprint (dataGeometry, already in WGS84) is a strip     *)
(* <<x1, x2>> of longitudes that spans the latitudes of the tile, so that   *)
(* area ratios are ratios of lengths.                                       *)

SubScene(has_cloud, cloud, has_geometry, geom, pid) ==
    [has_cloud |-> has_cloud, cloudCoverage |-> cloud,
     has_geometry |-> has_geometry, dataGeometry |-> geom, productId |-> pid]

RECURSIVE SumSet(_)
SumSet(S) == IF S = {} THEN 0
             ELSE LET x == CHOOSE y \in S : TRUE IN x[2] - x[1] + SumSet(S \ {x})

\* compute_orbit_bbox: the footprints of the sub-scenes that have a geometry
orbit_geometries(orbit) ==
    {orbit.tiles[k].dataGeometry : k \in {j \in 1..Len(orbit.tiles) : orbit.tiles[j].has_geometry}}

\* compute_orbit_bbox raises ValueError("No valid geometries found in orbit.")
NoValidGeometries(orbit) == orbit_geometries(orbit) = {}

\* orbit_geom.intersection(box(*tile_bbox)).area over the tile's latitude extent
intersection_length(geoms, tile_bbox) ==
    LET lo == min_x(tile_bbox)
        hi == max_x(tile_bbox)
        pts == {lo, hi} \cup {Min(Max(g[1], lo), hi) : g \in geoms}
                        \cup {Min(Max(g[2], lo), hi) : g \in geoms}
        covered == {c \in Adjacent(pts) : \E g \in geoms : g[1] <= c[1] /\ c[2] <= g[2]}
    IN  SumSet(covered)

\* percentage_coverage > 0.9
CoverageNum == 9
CoverageDen == 10

\* a plausible slip: the comparison is turned around
sufficient_coverage_reversed(orbit, tile_bbox) ==
    intersection_length(orbit_geometries(orbit), tile_bbox) * CoverageDen
        < CoverageNum * (max_x(tile_bbox) - min_x(tile_bbox))

\* a plausible slip: coverage of exactly 0.9 is accepted
sufficient_coverage_inclusive(orbit, tile_bbox) ==
    intersection_length(orbit_geometries(orbit), tile_bbox) * CoverageDen
        >= CoverageNum * (max_x(tile_bbox) - min_x(tile_bbox))

sufficient_coverage(orbit, tile_bbox) ==
    intersection_length(orbit_geometries(orbit), tile_bbox) * CoverageDen
        > CoverageNum * (max_x(tile_bbox) - min_x(tile_bbox))

\* filter_orbits: the positions, in list order, of the orbits that are kept
filter_orbits(orbits, tile_bbox) ==
    SelectSeq([k \in 1..Len(orbits) |-> k],
              LAMBDA k : sufficient_coverage(orbits[k], tile_bbox))

\* avg_cloud as the fraction <<sum, count>>; 100.0 when there is no sub-scene
avg_cloud(orbit) ==
    IF orbit.tiles = <<>> THEN <<100, 1>>
    ELSE <<SumSeq([k \in 1..Len(orbit.tiles) |->
                    IF orbit.tiles[k].has_cloud THEN orbit.tiles[k].cloudCoverage ELSE 100]),
           Len(orbit.tiles)>>

FracLess(a, b) == a[1] * b[2] < b[1] * a[2]

\* a plausible slip: on equal keys the later candidate wins
RECURSIVE MinByCloud_last(_, _)
MinByCloud_last(orbits, idxs) ==
    IF Len(idxs) = 1 THEN idxs[1]
    ELSE LET rest == MinByCloud_last(orbits, Tail(idxs))
         IN  IF FracLess(avg_cloud(orbits[idxs[1]]), avg_cloud(orbits[rest]))
             THEN idxs[1] ELSE rest

\* min(valid_orbits, key=avg_cloud): the first of the candidates with the least key
RECURSIVE MinByCloud(_, _)
MinByCloud(orbits, idxs) ==
    IF Len(idxs) = 1 THEN idxs[1]
    ELSE LET rest == MinByCloud(orbits, Tail(idxs))
         IN  IF FracLess(avg_cloud(orbits[rest]), avg_cloud(orbits[idxs[1]]))
             THEN rest ELSE idxs[1]

\* round(avg_cloud(best_orbit), 2) in hundredths, halves to even
RoundHundredths(f) ==
    LET n == 100 * f[1]
        q == n \div f[2]
        r2 == 2 * (n % f[2])
    IN  IF r2 > f[2] \/ (r2 = f[2] /\ q % 2 = 1) THEN q + 1 ELSE q

SelectionError(kind) ==
    [status |-> kind, strategy |-> "", orbit_date |-> 0, product_ids |-> <<>>,
     cloud_coverage |-> 0, orbit |-> 0]

PlannedStrategies == {"nearest_date", "max_coverage", "composite_score"}

\* a plausible slip: a strategy that is not implemented is served by least_cloud
select_best_orbit_fallback(metadata, config, tile_bbox) ==
    LET orbits == metadata.orbits IN
    IF orbits = <<>> THEN SelectionError("NoOrbits")
    ELSE IF \E k \in 1..Len(orbits) : NoValidGeometries(orbits[k])
    THEN SelectionError("NoValidGeometries")
    ELSE LET valid_orbits == filter_orbits(orbits, tile_bbox) IN
         IF valid_orbits = <<>> THEN SelectionError("NoCoverage")
         ELSE LET best == MinByCloud(orbits, valid_orbits)
                  chosen == orbits[best]
              IN  [status |-> "ok",
                   strategy |-> "least_cloud",
                   orbit_date |-> chosen.dateFrom[1],
                   product_ids |-> [k \in 1..Len(chosen.tiles) |-> chosen.tiles[k].productId],
                   cloud_coverage |-> RoundHundredths(avg_cloud(chosen)),
                   orbit |-> best]

\* select_best_orbit; "orbit" is the position in metadata["orbits"] of the
\* orbit object that is returned
select_best_orbit(metadata, config, tile_bbox) ==
    LET orbits == metadata.orbits
        strategy == config.orbit_selection_strategy
    IN
    IF orbits = <<>> THEN SelectionError("NoOrbits")
    ELSE IF strategy = "least_cloud" THEN
        IF \E k \in 1..Len(orbits) : NoValidGeometries(orbits[k])
        THEN SelectionError("NoValidGeometries")
        ELSE LET valid_orbits == filter_orbits(orbits, tile_bbox) IN
             IF valid_orbits = <<>> THEN SelectionError("NoCoverage")
             ELSE LET best == MinByCloud(orbits, valid_orbits)
                      chosen == orbits[best]
                  IN  [status |-> "ok",
                       strategy |-> "least_cloud",
                       orbit_date |-> chosen.dateFrom[1],
                       product_ids |-> [k \in 1..Len(chosen.tiles) |->
                                            chosen.tiles[k].productId],
                       cloud_coverage |-> RoundHundredths(avg_cloud(chosen)),
                       orbit |-> best]
    ELSE IF strategy \in PlannedStrategies THEN SelectionError("NotImplemented")
    ELSE SelectionError("UnknownStrategy")

----------------------------------------------------------------------------
(* Tile identity: job_utils.get_tile_prefix and the keys of the workflow    *)
(* tile metadata                                                            *)

\* a string is the sequence of its pieces: words, " ", "_" and decimal digits
LowerOf == [w \in {"Canterbury", "Tile", "Hill", "NZ"} |->
               CASE w = "Canterbury" -> "canterbury" [] w = "Tile" -> "tile"
                 [] w = "Hill" -> "hill" [] w = "NZ" -> "nz"]

\* region.lower().replace(" ", "_")
region_key(region) ==
    [k \in 1..Len(region) |->
        IF region[k] = " " THEN "_"
        ELSE IF region[k] \in DOMAIN LowerOf THEN LowerOf[region[k]] ELSE region[k]]

\* f"{idx}": the decimal digits of idx
RECURSIVE Decimal(_)
Decimal(n) ==
    LET digit == <<"0", "1", "2", "3", "4", "5", "6", "7", "8", "9">>[(n % 10) + 1]
    IN  IF n < 10 THEN <<digit>> ELSE Append(Decimal(n \div 10), digit)

\* f"tile{i}"
TileKey(i) == <<"tile">> \o Decimal(i)

\* f"{region}_tile{idx}" with region = config.region.lower().replace(" ", "_")
get_tile_prefix(config, idx) == region_key(config.region) \o <<"_">> \o TileKey(idx)

\* s.split(sep)[-1]: what follows the last sep, the whole of s without one
SplitLast(s, sep) ==
    LET seps == {k \in 1..Len(s) : s[k] = sep}
    IN  IF seps = {} THEN s
        ELSE SubSeq(s, (CHOOSE k \in seps : \A j \in seps : j <= k) + 1, Len(s))

\* a plausible slip: split("_")[0], the first piece of the prefix
normalized_tile_key_first_piece(tile_prefix) ==
    LET seps == {k \in 1..Len(tile_prefix) : tile_prefix[k] = "_"}
    IN  IF seps = {} THEN tile_prefix
        ELSE SubSeq(tile_prefix, 1, (CHOOSE k \in seps : \A j \in seps : k <= j) - 1)

\* tile_prefix.split("_")[-1] if "tile" in tile_prefix else tile_prefix: the
\* key "tile{idx}" of workflow_tile_metadata.json
normalized_tile_key(tile_prefix) ==
    IF \E k \in 1..Len(tile_prefix) : tile_prefix[k] = "tile" THEN SplitLast(tile_prefix, "_") ELSE tile_prefix

\* write_workflow_tile_metadata: {"tile{i}": {"bbox": list(tile)}}
workflow_tile_metadata(ts) ==
    [key \in {TileKey(i) : i \in 0..(Len(ts) - 1)} |->
        ts[(CHOOSE i \in 0..(Len(ts) - 1) : TileKey(i) = key) + 1]]

----------------------------------------------------------------------------
(* select_best_orbit on arbitrary candidate lists *)

MaxOrbits == 3
SelectTile == <<0, 0, 1000, 1000>>

\* the sub-scene lists of the candidate orbits: footprints that cover the tile
\* fully, by halves, by exactly 0.9, by 0.95, not at all; cloud values that
\* tie, that are missing; no footprint geometry; no sub-scene at all
OrbitChoices ==
    { <<SubScene(TRUE, 10, TRUE, <<0, 1000>>, "p1")>>,
      <<SubScene(TRUE, 40, TRUE, <<-500, 1500>>, "p2")>>,
      <<SubScene(TRUE, 0, TRUE, <<0, 500>>, "p3a"), SubScene(TRUE, 20, TRUE, <<500, 1000>>, "p3b")>>,
      <<SubScene(TRUE, 0, TRUE, <<0, 500>>, "p4")>>,
      <<SubScene(TRUE, 5, TRUE, <<0, 900>>, "p5")>>,
      <<SubScene(FALSE, 0, TRUE, <<0, 1000>>, "p6")>>,
      <<>>,
      <<SubScene(TRUE, 0, FALSE, <<0, 0>>, "p8")>>,
      <<SubScene(FALSE, 0, TRUE, <<0, 1000>>, "p9a"), SubScene(TRUE, 0, TRUE, <<200, 700>>, "p9b")>>,
      <<SubScene(TRUE, 10, TRUE, <<0, 950>>, "p10")>> }

Strategies == {"least_cloud", "nearest_date", "max_coverage", "composite_score", "best_effort"}

InitSelect ==
    /\ aoi = SelectTile
    /\ tparams = [resolution |-> 10, max_dim |-> 2500, buffer |-> 95]
    /\ tiles = <<SelectTile>>
    /\ tile_info = <<>>
    /\ failed_tiles = <<>>
    /\ raw_tiles = EmptyDir
    /\ stitched = NoImage
    /\ \E s \in Strategies : profile = [NoProfile EXCEPT !.orbit_selection_strategy = s]
    /\ timeseries_jobs = <<>>
    /\ job_no = 0
    /\ \E n \in 0..MaxOrbits : \E ch \in [1..n -> OrbitChoices] :
          tile_metadata = << <<get_tile_prefix(NoProfile, 0),
                [orbits |-> [k \in 1..n |-> [dateFrom |-> <<k, 0>>, tiles |-> ch[k]]]]>> >>
    /\ selected_orbits = <<>>
    /\ best_orbit = NoOrbit
    /\ outputs = EmptyDir
    /\ raised = ""
    /\ phase = "discovered"
    /\ ndvi_input = <<>>
    /\ ndvi = <<>>
    /\ intervals = <<>>
    /\ requests = <<>>

SelectBestOrbit ==
    /\ phase = "discovered"
    /\ best_orbit' = select_best_orbit(tile_metadata[1][2], profile, tiles[1])
    /\ phase' = "selected"
    /\ UNCHANGED <<aoi, tparams, tiles, tile_info, failed_tiles, raw_tiles, stitched, profile,
                   timeseries_jobs, job_no, tile_metadata, selected_orbits, outputs, raised>>
    /\ UNCHANGED <<ndvi_input, ndvi, intervals, requests>>

SpecSelect == InitSelect /\ [][SelectBestOrbit]_vars

----------------------------------------------------------------------------
(* C2 *)

Candidates == tile_metadata[1][2].orbits

\* the candidates that meet the spatial-coverage threshold, as filter_orbits decides it
Survivors == {k \in 1..Len(Candidates) : sufficient_coverage(Candidates[k], tiles[1])}

\* mean cloud coverage as the fraction <<sum, count>>: a sub-scene without a
\* cloud value counts as 100, a candidate without sub-scenes has mean 100
MeanCloud(k) ==
    LET ts == Candidates[k].tiles
    IN  IF Len(ts) = 0 THEN <<100, 1>>
        ELSE <<SumSeq([i \in 1..Len(ts) |-> IF ts[i].has_cloud THEN ts[i].cloudCoverage ELSE 100]),
               Len(ts)>>

Returned == phase = "selected" /\ best_orbit.status = "ok"

\* C2: with the least_cloud strategy the candidate that select_best_orbit
\* returns is a survivor of the coverage filter whose mean cloud coverage is
\* minimal among the survivors (missing cloud value = 100), and it is the
\* first such survivor in the candidate list.
C2_LeastCloudFirstMinimum ==
    (Returned /\ profile.orbit_selection_strategy = "least_cloud") =>
        /\ best_orbit.orbit \in Survivors
        /\ \A j \in Survivors :
              /\ MeanCloud(best_orbit.orbit)[1] * MeanCloud(j)[2]
                    <= MeanCloud(j)[1] * MeanCloud(best_orbit.orbit)[2]
              /\ j < best_orbit.orbit =>
                    MeanCloud(best_orbit.orbit)[1] * MeanCloud(j)[2]
                        < MeanCloud(j)[1] * MeanCloud(best_orbit.orbit)[2]
        /\ best_orbit.orbit_date = Candidates[best_orbit.orbit].dateFrom[1]

\* two survivors tie on the minimum and a third one, with a missing cloud
\* value, is worse: the first of the two is returned
C2_Witness ==
    /\ Returned
    /\ Cardinality(Survivors) = 3
    /\ \E j \in Survivors :
            MeanCloud(best_orbit.orbit)[1] * MeanCloud(j)[2]
                < MeanCloud(j)[1] * MeanCloud(best_orbit.orbit)[2]
    /\ \E j \in Survivors : j > best_orbit.orbit
            /\ MeanCloud(j)[1] * MeanCloud(best_orbit.orbit)[2]
                 = MeanCloud(best_orbit.orbit)[1] * MeanCloud(j)[2]
    /\ \E j \in Survivors : \E i \in 1..Len(Candidates[j].tiles) :
            ~Candidates[j].tiles[i].has_cloud

----------------------------------------------------------------------------
(* C3 *)

CoveredTenths(k) == intersection_length(orbit_geometries(Candidates[k]), tiles[1]) * 10
ThresholdTenths == 9 * (max_x(tiles[1]) - min_x(tiles[1]))

NoCandidateMeetsThreshold ==
    /\ Candidates # <<>>
    /\ Survivors = {}

C3_WitnessNoCoverage ==
    /\ phase = "selected"
    /\ NoCandidateMeetsThreshold
    /\ Len(Candidates) >= 2
    /\ best_orbit.status = "NoCoverage"

----------------------------------------------------------------------------
(* C11 *)

----------------------------------------------------------------------------
(* C12 *)

AllHaveGeometry == \A k \in 1..Len(Candidates) : ~NoValidGeometries(Candidates[k])

----------------------------------------------------------------------------
(* Retrieval: tile_utils.download_safe_tiles, download_orbits_for_tiles     *)
(*                                                                          *)
(* A response of the raster request is [status, data]: status "error" when  *)
(* request.get_data() raises, "none" when it returns None, "ok" when it     *)
(* returns the raster data.                                                 *)

Response(status, data) == [status |-> status, data |-> data]
NoData == Raster(0, 0, 0, 0, FALSE)

\* data is None or np.all(data == 0), or the request raised
RetrievalFailed(resp) ==
    \/ resp.status = "error"
    \/ resp.status = "none"
    \/ resp.data.varied = FALSE /\ resp.data.val = 0

\* download_safe_tiles: responses[k] answers the request for ts[k]
download_safe_tiles(ts, responses, prefix) ==
    LET ok == SelectSeq([k \in 1..Len(ts) |-> k], LAMBDA k : ~RetrievalFailed(responses[k]))
        ko == SelectSeq([k \in 1..Len(ts) |-> k], LAMBDA k : RetrievalFailed(responses[k]))
    IN  [tile_info    |-> [j \in 1..Len(ok) |-> <<NpyName(prefix, ok[j] - 1), ts[ok[j]]>>],
         failed_tiles |-> [j \in 1..Len(ko) |-> <<ko[j] - 1, ts[ko[j]]>>],
         saved        |-> [f \in {NpyName(prefix, ok[j] - 1) : j \in 1..Len(ok)} |->
                              responses[f[2] + 1].data]]

\* selected_orbits is the ordered mapping tile_prefix -> selected orbit,
\* a list of <<tile_prefix, orbit>>
HasKey(mapping, key) == \E k \in 1..Len(mapping) : mapping[k][1] = key
Lookup_first_stored(mapping, key) == mapping[1][2]
Lookup(mapping, key) == mapping[CHOOSE k \in 1..Len(mapping) : mapping[k][1] = key][2]

\* the loop of download_orbits_for_tiles from tile idx on (idx counts from 0);
\* requests records, in order, the raster requests issued: the tile's idx,
\* the prefix its file is saved under, the bbox and the time_interval asked
RECURSIVE download_orbits_loop(_, _, _, _, _, _)
download_orbits_loop(ts, selected, config, responses, idx, acc) ==
    IF idx >= Len(ts) THEN acc
    ELSE LET tile == ts[idx + 1]
             tile_prefix == get_tile_prefix(config, idx)
         IN  IF ~HasKey(selected, tile_prefix)
             THEN download_orbits_loop(ts, selected, config, responses, idx + 1,
                    [acc EXCEPT !.failed_tiles = Append(@, <<idx, tile>>)])
             ELSE LET orbit_date == Lookup(selected, tile_prefix).orbit_date
                      got == download_safe_tiles(<<tile>>, <<responses[idx + 1]>>, tile_prefix)
                  IN  download_orbits_loop(ts, selected, config, responses, idx + 1,
                        [acc EXCEPT !.tile_info = @ \o got.tile_info,
                                    !.failed_tiles = @ \o got.failed_tiles,
                                    !.saved = got.saved @@ @,
                                    !.requests = Append(@, [idx |-> idx, prefix |-> tile_prefix,
                                                             bbox |-> tile,
                                                             time_interval |->
                                                               <<orbit_date, orbit_date>>])])

\* download_orbits_for_tiles; tiles[0] of an empty list raises IndexError
download_orbits_for_tiles(ts, selected, config, responses) ==
    IF ts = <<>>
    THEN [raised |-> "IndexError", tile_info |-> <<>>, failed_tiles |-> <<>>,
          saved |-> EmptyDir, requests |-> <<>>]
    ELSE download_orbits_loop(ts, selected, config, responses, 0,
            [raised |-> "", tile_info |-> <<>>, failed_tiles |-> <<>>,
             saved |-> EmptyDir, requests |-> <<>>])

----------------------------------------------------------------------------
(* download_safe_tiles and download_orbits_for_tiles on arbitrary tile lists *)

MaxDlTiles == 2
DlBBoxes == {<<0, 0, 1000, 1000>>, <<1000, 0, 2000, 1000>>, <<0, 1000, 1000, 2000>>}

\* what a raster request can answer: an exception, None, an all-zero raster,
\* a constant non-zero raster, a raster with varied pixels
ResponseChoices ==
    { Response("error", NoData), Response("none", NoData),
      Response("ok", Raster(1, 1, 7, 0, FALSE)),
      Response("ok", Raster(1, 1, 7, 5, FALSE)),
      Response("ok", Raster(1, 1, 7, 5, TRUE)) }

\* the date of the orbit selected for the tile at position idx: another
\* day for every tile
OrbitDay(idx) == idx + 1

SelectedOn(day) == [status |-> "ok", strategy |-> "least_cloud", orbit_date |-> day,
                    product_ids |-> <<"p1">>, cloud_coverage |-> 1000, orbit |-> 1]

InitDownload ==
    /\ aoi = <<0, 0, 2000, 2000>>
    /\ tparams = [resolution |-> 10, max_dim |-> 2500, buffer |-> 95]
    /\ \E n \in 0..MaxDlTiles : \E bbs \in [1..n -> DlBBoxes] :
          /\ \A i, j \in 1..n : i # j => bbs[i] # bbs[j]
          /\ tiles = bbs
    /\ tile_info = <<>>
    /\ raw_tiles = EmptyDir
    /\ stitched = NoImage
    /\ profile = NoProfile
    /\ timeseries_jobs = <<>>
    /\ job_no = 0
    /\ tile_metadata = <<>>
    /\ \E has \in SUBSET (0..(Len(tiles) - 1)) :
          \* tile idx's selected orbit, when it has one, is of day OrbitDay(idx)
          selected_orbits =
              LET idxs == SelectSeq([k \in 1..Len(tiles) |-> k - 1], LAMBDA i : i \in has)
              IN  [j \in 1..Len(idxs) |-> <<get_tile_prefix(profile, idxs[j]),
                                              SelectedOn(OrbitDay(idxs[j]))>>]
    /\ failed_tiles = <<>>
    /\ best_orbit = NoOrbit
    /\ outputs = EmptyDir
    /\ raised = ""
    /\ phase = "selected"
    /\ ndvi_input = <<>>
    /\ ndvi = <<>>
    /\ intervals = <<>>
    /\ requests = <<>>

CallDownloadSafeTiles ==
    /\ phase = "selected"
    /\ \E responses \in [1..Len(tiles) -> ResponseChoices] :
          LET got == download_safe_tiles(tiles, responses, "tile")
          IN  /\ tile_info' = got.tile_info
              /\ failed_tiles' = got.failed_tiles
              /\ raw_tiles' = SaveRasters(profile.job_id, got.saved)
    /\ requests' = [k \in 1..Len(tiles) |->
                      [idx |-> k - 1, prefix |-> "tile", bbox |-> tiles[k],
                       time_interval |-> <<1, 1>>]]
    /\ phase' = "downloaded_safe_tiles"
    /\ UNCHANGED <<aoi, tparams, tiles, stitched, profile, timeseries_jobs, job_no,
                   tile_metadata, selected_orbits, best_orbit, outputs, raised>>
    /\ UNCHANGED <<ndvi_input, ndvi, intervals>>

CallDownloadOrbitsForTiles ==
    /\ phase = "selected"
    /\ \E responses \in [1..Len(tiles) -> ResponseChoices] :
          LET got == download_orbits_for_tiles(tiles, selected_orbits, profile, responses)
          IN  /\ tile_info' = got.tile_info
              /\ failed_tiles' = got.failed_tiles
              /\ raw_tiles' = SaveRasters(profile.job_id, got.saved)
              /\ raised' = got.raised
              /\ requests' = got.requests
    /\ phase' = "downloaded"
    /\ UNCHANGED <<aoi, tparams, tiles, stitched, profile, timeseries_jobs, job_no,
                   tile_metadata, selected_orbits, best_orbit, outputs>>
    /\ UNCHANGED <<ndvi_input, ndvi, intervals>>

NextDownload == CallDownloadSafeTiles \/ CallDownloadOrbitsForTiles

SpecDownload == InitDownload /\ [][NextDownload]_vars

----------------------------------------------------------------------------
(* C7 *)

InfoBBoxes == {tile_info[k][2] : k \in 1..Len(tile_info)}
FailedBBoxes == {failed_tiles[k][2] : k \in 1..Len(failed_tiles)}

\* every input tile is in exactly one of tile_info and failed_tiles, and the
\* raw_tiles directory holds exactly the files named in tile_info
DownloadPartition ==
    /\ raised = ""
    /\ InfoBBoxes \cup FailedBBoxes = {tiles[k] : k \in 1..Len(tiles)}
    /\ InfoBBoxes \cap FailedBBoxes = {}
    /\ Len(tile_info) + Len(failed_tiles) = Len(tiles)
    /\ DOMAIN RawTilesDir(profile.job_id) = {tile_info[k][1] : k \in 1..Len(tile_info)}
    /\ Cardinality(DOMAIN RawTilesDir(profile.job_id)) = Len(tile_info)

\* C7 as stated: for every list of tiles and every pattern of retrieval
\* successes and failures, download_safe_tiles and download_orbits_for_tiles
\* return (tile_info, failed_tiles) that partition the input tiles, and a
\* raster file is saved exactly for the tiles in tile_info.
C7_DownloadPartitionsEveryList ==
    phase \in {"downloaded_safe_tiles", "downloaded"} => DownloadPartition

\* the same for the lists that are not empty
DownloadPartitionsNonEmptyList ==
    (phase \in {"downloaded_safe_tiles", "downloaded"} /\ tiles # <<>>) => DownloadPartition

----------------------------------------------------------------------------
(* C13 *)

\* C13: a raster response that is absent, all-zero or all-identical is a
\* retrieval failure: no raster file is saved for it and it is not named in
\* tile_info, so every saved raster has varied values.
C13_DegenerateRasterIsFailure ==
    phase \in {"downloaded_safe_tiles", "downloaded"} =>
        /\ \A k \in 1..Len(tile_info) :
              raw_tiles[<<profile.job_id, tile_info[k][1]>>].varied
        /\ \A f \in DOMAIN raw_tiles : raw_tiles[f].varied

----------------------------------------------------------------------------
(* The job loop of get_timeseries.py: operators                             *)

\* generate_job_id: the job's output path below outputs/, one component
\* f"{region}__{start}_{end}" per level
generate_job_id(config) ==
    config.parent_job_id
        \o << <<region_key(config.region), config.time_interval[1],
                config.time_interval[2]>> >>

\* create_timeseries_jobs: one sub-profile per time interval
create_timeseries_jobs(config, time_intervals) ==
    [k \in 1..Len(time_intervals) |->
        LET sub_profile == [config EXCEPT !.time_interval = time_intervals[k],
                                          !.parent_job_id = config.job_id]
        IN  [sub_profile EXCEPT !.job_id = generate_job_id(sub_profile)]]

FilesOfJob(files, job_id) == {f \in DOMAIN files : f[1] = job_id}

\* shutil.rmtree(paths["base"]): the files at or below the job's directory go
BelowDir(path, base) == Len(path) >= Len(base) /\ SubSeq(path, 1, Len(base)) = base
remove_output_dir(files, job_id) ==
    [f \in {g \in DOMAIN files : ~BelowDir(g[1], job_id)} |-> files[f]]

\* generate_safe_tiles(paths=, aoi=, resolution=) is called with the defaults
DefaultMaxDim == 2500
DefaultBuffer == 95

\* a response of the metadata request is [status, userdata, has_orbits,
\* orbits]: userdata says whether it is a dict with the key "userdata.json",
\* has_orbits whether the payload has the key "orbits"; orbits is what
\* payload.get("orbits", []) gives
MetadataResponse(status, userdata, has_orbits, orbits) ==
    [status |-> status, userdata |-> userdata, has_orbits |-> has_orbits, orbits |-> orbits]

\* discover_orbit_metadata: the request raises, or its userdata, with the
\* tile's bbox injected, or else the response itself becomes the metadata and
\* is written to <prefix>_orbit_metadata.json
discover_orbit_metadata(tile, response, prefix) ==
    IF response.status = "error"
    THEN [raised |-> "RequestError",
          metadata |-> [orbits |-> <<>>, has_orbits |-> FALSE,
                        tile_bbox |-> <<>>, has_tile_bbox |-> FALSE]]
    ELSE IF response.userdata
    THEN [raised |-> "",
          metadata |-> [orbits |-> response.orbits, has_orbits |-> response.has_orbits,
                        tile_bbox |-> tile, has_tile_bbox |-> TRUE]]
    ELSE [raised |-> "",
          metadata |-> [orbits |-> response.orbits, has_orbits |-> response.has_orbits,
                        tile_bbox |-> <<>>, has_tile_bbox |-> FALSE]]

\* the loop of discover_metadata_for_tiles from tile idx on: an exception of
\* discover_orbit_metadata is not caught and ends the loop
RECURSIVE discover_metadata_loop(_, _, _, _, _)
discover_metadata_loop(ts, config, responses, idx, acc) ==
    IF idx >= Len(ts) THEN acc
    ELSE LET tile_prefix == get_tile_prefix(config, idx)
             got == discover_orbit_metadata(ts[idx + 1], responses[idx + 1], tile_prefix)
         IN  IF got.raised # ""
             THEN [acc EXCEPT !.raised = got.raised]
             ELSE discover_metadata_loop(ts, config, responses, idx + 1,
                    [acc EXCEPT !.metadata_by_tile = Append(@, <<tile_prefix, got.metadata>>)])

\* discover_metadata_for_tiles: the ordered mapping tile_prefix -> metadata;
\* an orbit metadata file is written for every entry
discover_metadata_for_tiles(ts, config, responses) ==
    discover_metadata_loop(ts, config, responses, 0,
        [raised |-> "", metadata_by_tile |-> <<>>])

\* a plausible slip: the test is on the mapping, not on the orbits in it
has_valid_orbits_of_any_entry(metadata_by_tile) == metadata_by_tile # <<>>

\* has_valid_orbits: any(metadata.get("orbits", []) for metadata in ...)
has_valid_orbits(metadata_by_tile) ==
    \E k \in 1..Len(metadata_by_tile) : metadata_by_tile[k][2].orbits # <<>>

\* the loop of select_orbits_for_tiles from entry k on: whatever the tile's
\* selection raises is caught and recorded in failures
RECURSIVE select_orbits_loop(_, _, _, _, _)
select_orbits_loop(tile_bboxes, metadata_by_tile, config, k, acc) ==
    IF k > Len(metadata_by_tile) THEN acc
    ELSE LET tile_prefix == metadata_by_tile[k][1]
             key == normalized_tile_key(tile_prefix)
             orbit == IF key \in DOMAIN tile_bboxes
                      THEN select_best_orbit(metadata_by_tile[k][2], config, tile_bboxes[key])
                      ELSE SelectionError("KeyError")
         IN  select_orbits_loop(tile_bboxes, metadata_by_tile, config, k + 1,
                IF orbit.status = "ok"
                THEN [acc EXCEPT !.selected = Append(@, <<tile_prefix, orbit>>)]
                ELSE [acc EXCEPT !.failures = Append(@, <<tile_prefix, orbit.status>>)])

\* a plausible slip: no handler around the tile's selection, the first failure
\* leaves the function
select_orbits_for_tiles_without_handler(tile_bboxes, metadata_by_tile, config) ==
    LET got == select_orbits_loop(tile_bboxes, metadata_by_tile, config, 1,
                    [raised |-> "", selected |-> <<>>, failures |-> <<>>])
    IN  IF got.failures = <<>> THEN got
        ELSE [raised |-> got.failures[1][2], selected |-> <<>>, failures |-> <<>>]

\* select_orbits_for_tiles: the ordered mapping tile_prefix -> selected orbit;
\* write_selected_orbit writes a record for every entry
select_orbits_for_tiles(tile_bboxes, metadata_by_tile, config) ==
    select_orbits_loop(tile_bboxes, metadata_by_tile, config, 1,
        [raised |-> "", selected |-> <<>>, failures |-> <<>>])

\* discover_orbit_data_metadata: the distinct product ids of the selected
\* orbit files; nothing is written when there is no such file
selected_product_ids(selected_files) ==
    UNION {{selected_files[f].product_ids[i] : i \in 1..Len(selected_files[f].product_ids)} :
              f \in DOMAIN selected_files}

\* the imagery files that generate_ndvi_products writes
generate_ndvi_products(info, stitched_image) ==
    IF stitched_image = NoImage \/ Len(info) = 0 THEN {}
    ELSE {"ndvi_cloud_mask.png", "ndvi.png", "ndvi.tif"}

\* the imagery files that generate_true_color_products writes
generate_true_color_products(info, stitched_image) ==
    IF stitched_image = NoImage \/ Len(info) = 0 THEN {}
    ELSE {"true_color.png", "true_color.tif"}

----------------------------------------------------------------------------
(* The job loop of get_timeseries.py: state machine                         *)

MaxJobs == 2

\* areas of interest that give no tile, one tile and two tiles side by side
\* (two tiles one above the other are among RegionAois)
JobAois == { <<0, 0, 0, 0>>, <<0, 0, 2000000, 2000000>>, <<0, 0, 4000000, 2000000>> }

\* what the metadata request for a tile can answer: an exception, no orbit, a
\* low-coverage orbit with less cloud followed by a full-coverage orbit, a
\* low-coverage orbit alone, a payload without "userdata.json" and without
\* "orbits", a userdata without "orbits"
DiscoveryResponses(tile) ==
    LET lo == min_x(tile)
        hi == max_x(tile)
        low == [dateFrom |-> <<1, 0>>,
                tiles |-> <<SubScene(TRUE, 0, TRUE, <<lo, lo + (hi - lo) \div 2>>, "low")>>]
        full == [dateFrom |-> <<2, 0>>,
                 tiles |-> <<SubScene(TRUE, 10, TRUE, <<lo, hi>>, "full")>>]
    IN  { MetadataResponse("error", FALSE, FALSE, <<>>),
          MetadataResponse("ok", TRUE, TRUE, <<>>),
          MetadataResponse("ok", TRUE, TRUE, <<low, full>>),
          MetadataResponse("ok", TRUE, TRUE, <<low>>),
          MetadataResponse("ok", FALSE, FALSE, <<>>),
          MetadataResponse("ok", TRUE, FALSE, <<>>) }

\* what the raster request for a tile can answer
JobResponses ==
    { Response("error", NoData),
      Response("ok", Raster(1, 1, 7, 0, FALSE)),
      Response("ok", Raster(1, 1, 7, 5, TRUE)) }

job == timeseries_jobs[job_no]

Init ==
    /\ \E a \in JobAois, s \in Strategies :
          LET config == [region |-> <<"region">>, bbox |-> a, resolution |-> 10,
                         time_interval |-> <<1, MaxJobs>>, orbit_selection_strategy |-> s,
                         job_id |-> <<>>, parent_job_id |-> <<>>]
          IN  profile = [config EXCEPT !.job_id = generate_job_id(config)]
    /\ \E n \in 1..MaxJobs :
          /\ intervals = [k \in 1..n |-> <<k, k>>]
          /\ timeseries_jobs = create_timeseries_jobs(profile, intervals)
    /\ requests = <<>>
    /\ job_no = 0
    /\ aoi = profile.bbox
    /\ tparams = [resolution |-> profile.resolution, max_dim |-> DefaultMaxDim,
                  buffer |-> DefaultBuffer]
    /\ tiles = <<>>
    /\ tile_metadata = <<>>
    /\ selected_orbits = <<>>
    /\ tile_info = <<>>
    /\ failed_tiles = <<>>
    /\ stitched = NoImage
    /\ best_orbit = NoOrbit
    /\ raw_tiles = EmptyDir
    /\ outputs = EmptyDir
    /\ raised = ""
    /\ phase = "start"
    /\ ndvi_input = <<>>
    /\ ndvi = <<>>

\* top of the loop body: the next job; the names the body binds are bound
\* again before they are read
PrepareJobOutputDirs ==
    /\ phase \in {"start", "job_done", "job_skipped"}
    /\ job_no < Len(timeseries_jobs)
    /\ job_no' = job_no + 1
    /\ tiles' = <<>>
    /\ tile_metadata' = <<>>
    /\ selected_orbits' = <<>>
    /\ tile_info' = <<>>
    /\ failed_tiles' = <<>>
    /\ stitched' = NoImage
    /\ requests' = <<>>
    /\ phase' = "prepared"
    /\ UNCHANGED <<aoi, tparams, raw_tiles, profile, timeseries_jobs, best_orbit,
                   outputs, raised>>
    /\ UNCHANGED <<ndvi_input, ndvi, intervals>>

GenerateSafeTiles ==
    /\ phase = "prepared"
    /\ tiles' = generate_safe_tiles(job.bbox, job.resolution, DefaultMaxDim, DefaultBuffer)
    /\ outputs' = [f \in {OutFile(job.job_id, "metadata", NoTile, "workflow_tile_metadata.json")}
                      |-> workflow_tile_metadata(tiles')] @@ outputs
    /\ phase' = "tiled"
    /\ UNCHANGED <<aoi, tparams, tile_info, failed_tiles, raw_tiles, stitched, profile,
                   timeseries_jobs, job_no, tile_metadata, selected_orbits, best_orbit,
                   raised>>
    /\ UNCHANGED <<ndvi_input, ndvi, intervals, requests>>

DiscoverMetadataForTiles ==
    /\ phase = "tiled"
    /\ \E responses \in [1..Len(tiles) -> UNION {DiscoveryResponses(tiles[k]) : k \in 1..Len(tiles)}] :
          /\ \A k \in 1..Len(tiles) : responses[k] \in DiscoveryResponses(tiles[k])
          /\ LET got == discover_metadata_for_tiles(tiles, job, responses)
             IN  /\ tile_metadata' = got.metadata_by_tile
                 /\ outputs' =
                      [f \in {OutFile(job.job_id, "metadata", got.metadata_by_tile[k][1],
                                      "orbit_metadata.json") :
                                  k \in 1..Len(got.metadata_by_tile)}
                          |-> Lookup(got.metadata_by_tile, f[3])] @@ outputs
                 /\ raised' = got.raised
                 /\ phase' = IF got.raised = "" THEN "discovered" ELSE "crashed"
    /\ UNCHANGED <<aoi, tparams, tiles, tile_info, failed_tiles, raw_tiles, stitched,
                   profile, timeseries_jobs, job_no, selected_orbits, best_orbit>>
    /\ UNCHANGED <<ndvi_input, ndvi, intervals, requests>>

\* if not has_valid_orbits(tile_metadata): remove_output_dir(paths); continue
SkipJobWithoutOrbits ==
    /\ phase = "discovered"
    /\ ~has_valid_orbits(tile_metadata)
    /\ outputs' = remove_output_dir(outputs, job.job_id)
    /\ raw_tiles' = remove_output_dir(raw_tiles, job.job_id)
    /\ phase' = "job_skipped"
    /\ UNCHANGED <<aoi, tparams, tiles, tile_info, failed_tiles, stitched, profile,
                   timeseries_jobs, job_no, tile_metadata, selected_orbits, best_orbit,
                   raised>>
    /\ UNCHANGED <<ndvi_input, ndvi, intervals, requests>>

SelectOrbitsForTiles ==
    /\ phase = "discovered"
    /\ has_valid_orbits(tile_metadata)
    /\ LET workflow_tile_path ==
              OutFile(job.job_id, "metadata", NoTile, "workflow_tile_metadata.json")
       IN  IF workflow_tile_path \notin DOMAIN outputs
           THEN /\ raised' = "FileNotFoundError"
                /\ phase' = "crashed"
                /\ UNCHANGED <<selected_orbits, outputs>>
           ELSE LET got == select_orbits_for_tiles(outputs[workflow_tile_path],
                                                   tile_metadata, job)
                IN  /\ selected_orbits' = got.selected
                    /\ outputs' =
                         [f \in {OutFile(job.job_id, "metadata", got.selected[k][1],
                                         "selected_orbit.json") : k \in 1..Len(got.selected)}
                             |-> Lookup(got.selected, f[3])] @@ outputs
                    /\ raised' = got.raised
                    /\ phase' = IF got.raised = "" THEN "selected" ELSE "crashed"
    /\ UNCHANGED <<aoi, tparams, tiles, tile_info, failed_tiles, raw_tiles, stitched,
                   profile, timeseries_jobs, job_no, tile_metadata, best_orbit>>
    /\ UNCHANGED <<ndvi_input, ndvi, intervals, requests>>

\* product_metadata.json is written for the product ids of the selected orbit
\* files; what the catalog answers for an id is not part of the state
DiscoverOrbitDataMetadata ==
    /\ phase = "selected"
    /\ LET orbit_files == {f \in FilesOfJob(outputs, job.job_id) : f[4] = "selected_orbit.json"}
           product_ids == selected_product_ids([f \in orbit_files |-> outputs[f]])
       IN  IF orbit_files = {} THEN UNCHANGED outputs
           ELSE outputs' = [f \in {OutFile(job.job_id, "metadata", NoTile,
                                            "product_metadata.json")} |-> product_ids]
                               @@ outputs
    /\ phase' = "product_metadata"
    /\ UNCHANGED <<aoi, tparams, tiles, tile_info, failed_tiles, raw_tiles, stitched,
                   profile, timeseries_jobs, job_no, tile_metadata, selected_orbits,
                   best_orbit, raised>>
    /\ UNCHANGED <<ndvi_input, ndvi, intervals, requests>>

DownloadOrbitsForTiles ==
    /\ phase = "product_metadata"
    /\ \E responses \in [1..Len(tiles) -> JobResponses] :
          LET got == download_orbits_for_tiles(tiles, selected_orbits, job, responses)
          IN  /\ tile_info' = got.tile_info
              /\ failed_tiles' = got.failed_tiles
              /\ raw_tiles' = SaveRasters(job.job_id, got.saved)
              /\ raised' = got.raised
              /\ requests' = got.requests
              /\ phase' = IF got.raised = "" THEN "downloaded" ELSE "crashed"
    /\ UNCHANGED <<aoi, tparams, tiles, stitched, profile, timeseries_jobs, job_no,
                   tile_metadata, selected_orbits, best_orbit, outputs>>
    /\ UNCHANGED <<ndvi_input, ndvi, intervals>>

StitchRawTileData ==
    /\ phase = "downloaded"
    /\ LET got == stitch_raw_tile_data(RawTilesDir(job.job_id), tile_info)
       IN  /\ stitched' = got.image
           /\ outputs' = IF got.saved
                         THEN [f \in {OutFile(job.job_id, "stitched", NoTile,
                                              "stitched_raw_bands.npy")} |-> got.image]
                                  @@ outputs
                         ELSE outputs
    /\ phase' = "stitched"
    /\ UNCHANGED <<aoi, tparams, tiles, tile_info, failed_tiles, raw_tiles, profile,
                   timeseries_jobs, job_no, tile_metadata, selected_orbits, best_orbit,
                   raised>>
    /\ UNCHANGED <<ndvi_input, ndvi, intervals, requests>>

\* if stitched_image is not None and tile_info: the products and the overlay
GenerateProducts ==
    /\ phase = "stitched"
    /\ LET written == IF stitched # NoImage /\ tile_info # <<>>
                      THEN generate_ndvi_products(tile_info, stitched)
                             \cup generate_true_color_products(tile_info, stitched)
                             \cup {"product_overlay.png"}
                      ELSE {}
       IN  outputs' = [f \in {OutFile(job.job_id, "imagery", NoTile, n) : n \in written}
                          |-> TRUE] @@ outputs
    /\ phase' = "job_done"
    /\ UNCHANGED <<aoi, tparams, tiles, tile_info, failed_tiles, raw_tiles, stitched,
                   profile, timeseries_jobs, job_no, tile_metadata, selected_orbits,
                   best_orbit, raised>>
    /\ UNCHANGED <<ndvi_input, ndvi, intervals, requests>>

\* the loop has run through timeseries_jobs
Finish ==
    /\ phase \in {"start", "job_done", "job_skipped"}
    /\ job_no = Len(timeseries_jobs)
    /\ phase' = "finished"
    /\ UNCHANGED <<aoi, tparams, tiles, tile_info, failed_tiles, raw_tiles, stitched,
                   profile, timeseries_jobs, job_no, tile_metadata, selected_orbits,
                   best_orbit, outputs, raised>>
    /\ UNCHANGED <<ndvi_input, ndvi, intervals, requests>>

Next ==
    \/ PrepareJobOutputDirs
    \/ GenerateSafeTiles
    \/ DiscoverMetadataForTiles
    \/ SkipJobWithoutOrbits
    \/ SelectOrbitsForTiles
    \/ DiscoverOrbitDataMetadata
    \/ DownloadOrbitsForTiles
    \/ StitchRawTileData
    \/ GenerateProducts
    \/ Finish

Spec == Init /\ [][Next]_vars

----------------------------------------------------------------------------
(* C6 *)

\* C6: a discovery failure for one tile is recovered locally, the remaining
\* tiles are still discovered and the job continues: the job loop never ends
\* with an unhandled exception.
C6_DiscoveryFailureRecovered == phase # "crashed" /\ raised = ""

----------------------------------------------------------------------------
(* C8 *)

\* what select_best_orbit gives for the k-th entry of tile_metadata, with the
\* bbox of the tile the entry's prefix names
SelectionOf(k) ==
    select_best_orbit(tile_metadata[k][2], job,
        tiles[(CHOOSE i \in 0..(Len(tiles) - 1) :
                  get_tile_prefix(job, i) = tile_metadata[k][1]) + 1])

Succeeded == SelectSeq([k \in 1..Len(tile_metadata) |-> k],
                       LAMBDA k : SelectionOf(k).status = "ok")

SelectionFailures == {"NoOrbits", "NoValidGeometries", "NoCoverage", "NotImplemented",
                      "UnknownStrategy", "KeyError"}

SelectedOrbitFiles ==
    {f \in FilesOfJob(outputs, job.job_id) : f[4] = "selected_orbit.json"}

\* C8: select_orbits_for_tiles never raises because a tile's selection failed;
\* it returns the mapping of exactly the tiles whose selection succeeded, in
\* the order of its input mapping, and a selected-orbit record is persisted
\* exactly for those tiles.
C8_SelectionFailuresStayLocal ==
    /\ raised \notin SelectionFailures
    /\ phase = "selected" =>
          /\ selected_orbits = [j \in 1..Len(Succeeded) |->
                                  <<tile_metadata[Succeeded[j]][1], SelectionOf(Succeeded[j])>>]
          /\ {f[3] : f \in SelectedOrbitFiles}
                = {tile_metadata[Succeeded[j]][1] : j \in 1..Len(Succeeded)}
          /\ \A f \in SelectedOrbitFiles : outputs[f] = Lookup(selected_orbits, f[3])

\* the selection of the first of two tiles failed, the second tile is selected
C8_Witness ==
    /\ phase = "selected"
    /\ Len(tile_metadata) = 2
    /\ SelectionOf(1).status \in {"NoOrbits", "NoCoverage"}
    /\ Len(selected_orbits) = 1
    /\ selected_orbits[1][1] = tile_metadata[2][1]

----------------------------------------------------------------------------
(* C9 *)

\* C9: when no tile was retrieved, stitch_raw_tile_data returns no mosaic
\* without raising and writes no stitched array, and the job produces no NDVI
\* and no true-color product; generate_ndvi_products and
\* generate_true_color_products write nothing when the mosaic is absent or the
\* tile list is empty.
C9_NoTilesNoProducts ==
    /\ (phase \in {"stitched", "job_done"} /\ tile_info = <<>>) =>
          /\ stitched = NoImage
          /\ raised = ""
          /\ ~\E f \in FilesOfJob(outputs, job.job_id) : f[2] \in {"stitched", "imagery"}
    /\ generate_ndvi_products(tile_info, NoImage) = {}
    /\ generate_ndvi_products(<<>>, stitched) = {}
    /\ generate_true_color_products(tile_info, NoImage) = {}
    /\ generate_true_color_products(<<>>, stitched) = {}

\* a job whose selected tiles all failed retrieval has run to its end
C9_Witness ==
    /\ phase = "job_done"
    /\ selected_orbits # <<>>
    /\ tile_info = <<>>
    /\ Len(failed_tiles) = Len(tiles)

----------------------------------------------------------------------------
(* C10 *)

\* C10: when the configured orbit-selection strategy is not least_cloud the
\* job is aborted before any per-tile work: no tile is discovered, selected
\* or retrieved, and the job does not continue past a per-tile failure.
C10_UnsupportedStrategyAbortsJob ==
    (job_no >= 1 /\ job.orbit_selection_strategy # "least_cloud") =>
        /\ tile_metadata = <<>>
        /\ selected_orbits = <<>>
        /\ failed_tiles = <<>>
        /\ phase \notin {"selected", "product_metadata", "downloaded", "stitched", "job_done"}
        /\ ~\E f \in FilesOfJob(outputs, job.job_id) :
                f[4] \in {"orbit_metadata.json", "selected_orbit.json"}

----------------------------------------------------------------------------
(* C14 *)

OrbitMetadataFiles ==
    {f \in DOMAIN outputs : f[4] = "orbit_metadata.json"}

\* C14: discover_orbit_metadata fails, and returns and persists no metadata,
\* when the metadata call errors and when the payload lacks the expected
\* fields: no metadata without userdata or without an orbit list is returned
\* or written.
C14_MalformedPayloadRejected ==
    /\ \A k \in 1..Len(tile_metadata) :
          tile_metadata[k][2].has_orbits /\ tile_metadata[k][2].has_tile_bbox
    /\ \A f \in OrbitMetadataFiles : outputs[f].has_orbits /\ outputs[f].has_tile_bbox

----------------------------------------------------------------------------
(* generate_safe_tiles on arbitrary AOIs: C15 *)

\* AOIs of positive, zero and negative width and height
AnyAoiInputs(size) ==
    {<<o[1], o[2], o[1] + (kx * size) \div ExtSub, o[2] + (ky * size) \div ExtSub>> :
        o \in Origins, kx \in (-1)..MaxExt, ky \in (-1)..MaxExt}

InitAoi ==
    /\ tparams \in [resolution : Resolutions, max_dim : MaxDims, buffer : Buffers]
    /\ aoi \in AnyAoiInputs(tile_size_deg(tparams.resolution, tparams.max_dim, tparams.buffer))
    /\ tiles = <<>>
    /\ tile_info = <<>>
    /\ raw_tiles = EmptyDir
    /\ stitched = NoImage
    /\ JobLoopAtRest
    /\ phase = "input"

SpecAoi == InitAoi /\ [][Tessellate]_vars

Degenerate(a) == a[1] >= a[3] \/ a[2] >= a[4]

\* C15: tessellating an AOI with min_lon >= max_lon or min_lat >= max_lat
\* fails with an input-validation error and never returns a tile list: no
\* state after generate_safe_tiles has returned has a degenerate AOI.
C15_DegenerateAoiRejected ==
    phase = "tiled" => ~Degenerate(aoi)

----------------------------------------------------------------------------
(* C16 *)

MinLats == {min_y(tiles[k]) : k \in 1..Len(tiles)}
MinLons == {min_x(tiles[k]) : k \in 1..Len(tiles)}

\* y is the next value of S after x
NextIn(S, x, y) == y \in S /\ x < y /\ ~\E z \in S : x < z /\ z < y
IsLast(S, x) == \A z \in S : z <= x

\* C16 as stated: indices are row-major with longitude varying fastest: tile
\* i+1 has the minimum latitude of tile i and the next greater minimum
\* longitude, except after the last tile of a latitude row, where tile i+1
\* starts the next row at the AOI's minimum longitude.
C16_LongitudeVariesFastest ==
    phase # "input" =>
        \A i \in 1..(Len(tiles) - 1) :
            IF IsLast(MinLons, min_x(tiles[i]))
            THEN /\ min_x(tiles[i + 1]) = aoi[1]
                 /\ NextIn(MinLats, min_y(tiles[i]), min_y(tiles[i + 1]))
            ELSE /\ min_y(tiles[i + 1]) = min_y(tiles[i])
                 /\ NextIn(MinLons, min_x(tiles[i]), min_x(tiles[i + 1]))

\* C16 amended: indices are column-major with latitude varying fastest: tile
\* i+1 has the minimum longitude of tile i and the next greater minimum
\* latitude, except after the last tile of a longitude column, where tile i+1
\* starts the next column at the AOI's minimum latitude.
C16_LatitudeVariesFastest ==
    phase # "input" =>
        \A i \in 1..(Len(tiles) - 1) :
            IF IsLast(MinLats, min_y(tiles[i]))
            THEN /\ min_y(tiles[i + 1]) = aoi[2]
                 /\ NextIn(MinLons, min_x(tiles[i]), min_x(tiles[i + 1]))
            ELSE /\ min_x(tiles[i + 1]) = min_x(tiles[i])
                 /\ NextIn(MinLats, min_y(tiles[i]), min_y(tiles[i + 1]))

\* a tessellation of at least two columns of at least three tiles each, whose
\* second tile lies north of the first
C16_Witness ==
    /\ phase = "tiled"
    /\ Cardinality(MinLons) >= 2
    /\ Cardinality(MinLats) >= 3
    /\ min_x(tiles[2]) = min_x(tiles[1])
    /\ min_y(tiles[2]) > min_y(tiles[1])

----------------------------------------------------------------------------
(* C17 *)

AoiWidth == aoi[3] - aoi[1]
AoiHeight == aoi[4] - aoi[2]
TileEdge == tile_size_deg(tparams.resolution, tparams.max_dim, tparams.buffer)

\* C17: for an AOI whose width and height are each at most one tile edge
\* length, exactly one edge length included, generate_safe_tiles returns
\* exactly one tile, whose bbox is the AOI.
C17_SmallAoiIsOneTile ==
    (phase # "input" /\ AoiWidth <= TileEdge /\ AoiHeight <= TileEdge)
        => tiles = <<aoi>>

\* an AOI exactly one edge length wide and less than one edge length high has
\* been tessellated into itself
C17_Witness ==
    /\ phase = "tiled"
    /\ AoiWidth = TileEdge
    /\ 0 < AoiHeight /\ AoiHeight < TileEdge
    /\ tiles = <<aoi>>

----------------------------------------------------------------------------
(* C18 *)

\* C18: stitching tile rasters whose band counts differ fails with an error
\* that reaches the caller, of stitch_tiles and of stitch_raw_tile_data alike:
\* there is no mosaic, and the step does not end normally without one.
C18_BandMismatchFailsFast ==
    (phase \in {"stitched", "stitch_step_done"} /\ ~UniformBands) =>
        /\ stitched.status # "ok"
        /\ stitched.status = "ValueError" \/ raised # ""

----------------------------------------------------------------------------
(* C19 *)

Permuted(s, f) == [k \in 1..Len(s) |-> s[f[k]]]

\* lists of up to MaxStitchTiles tiles at pairwise distinct positions, in every
\* order of arrival; the raster shapes rotate through ShapeSequence
ShapeSequence == <<<<1, 1>>, <<MaxPx, 1>>, <<1, MaxPx>>>>

InitPermute ==
    /\ aoi = <<0, 0, 0, 0>>
    /\ tparams = [resolution |-> 10, max_dim |-> 2500, buffer |-> 95]
    /\ tiles = <<>>
    /\ \E n \in 1..MaxStitchTiles :
       \E bbs \in [1..n -> StitchBBoxes], off \in 0..2, b \in BandChoices, odd \in {0, 1} :
            /\ \A i, j \in 1..n : i # j => bbs[i] # bbs[j]
            /\ tile_info = [k \in 1..n |-> <<NpyName("tile", k - 1), bbs[k]>>]
            /\ raw_tiles = [p \in {<<HarnessJob, NpyName("tile", k - 1)>> : k \in 1..n} |->
                    LET shape == ShapeSequence[((p[2][2] + off) % 3) + 1]
                    IN  Raster(shape[1], shape[2],
                               IF p[2][2] = 0 THEN b + odd ELSE b, p[2][2], TRUE)]
    /\ stitched = NoImage
    /\ JobLoopAtRest
    /\ phase = "retrieved"

SpecPermute == InitPermute /\ [][StitchTiles]_vars

DistinctPositions ==
    \A i, j \in 1..Len(tile_info) :
        i # j => <<min_y(tile_info[i][2]), min_x(tile_info[i][2])>>
                   # <<min_y(tile_info[j][2]), min_x(tile_info[j][2])>>

\* C19: for tile rasters with pairwise distinct (minimum latitude, minimum
\* longitude), stitch_tiles gives the same row grouping and the same mosaic
\* (or the same error) for every permutation of its input list.
C19_StitchIgnoresArrivalOrder ==
    (phase = "stitched" /\ DistinctPositions) =>
        \A f \in Permutations(1..Len(tile_info)) :
            /\ GroupRows(Permuted(tile_info, f)) = GroupRows(tile_info)
            /\ stitch_tiles(RawTilesDir(HarnessJob), Permuted(tile_info, f)) = stitched

\* three tiles that arrived out of order have been stitched into a mosaic with
\* a row of two tiles
C19_Witness ==
    /\ phase = "stitched"
    /\ DistinctPositions
    /\ Len(tile_info) = 3
    /\ tile_info # SortTiles(tile_info)
    /\ stitched.status = "ok"
    /\ \E r \in 1..Len(stitched.rows) : Len(stitched.rows[r].segs) = 2

----------------------------------------------------------------------------
(* Vegetation index: image_utils.compute_ndvi                                *)
(*                                                                          *)
(* Band values are reflectances in units of 1e-6, so that the epsilon 1e-6  *)
(* of the denominator is 1.  The raw-band request delivers them as          *)
(* non-negative FLOAT32 numbers in the order B02, B03, B04, B08, ...  A     *)
(* quotient is kept as the fraction [num, den] with den > 0.                *)

NdviPixels == 1
NdviEpsilon == 1

Fraction(num, den) == [num |-> num, den |-> den]

\* np.clip(x, -1, 1) of a fraction with a positive denominator
Clip(x) ==
    IF x.num > x.den THEN Fraction(1, 1)
    ELSE IF x.num < -x.den THEN Fraction(-1, 1)
    ELSE x

\* a plausible slip: the two band indices are exchanged
compute_ndvi_bands_exchanged(array) ==
    [p \in DOMAIN array |->
        LET red == array[p][3]
            nir == array[p][2]
        IN  Clip(Fraction(nir - red, nir + red + NdviEpsilon))]

\* red = stitched_array[..., 2]; nir = stitched_array[..., 3];
\* np.clip((nir - red) / (nir + red + 1e-6), -1, 1)
compute_ndvi(array) ==
    [p \in DOMAIN array |->
        LET red == array[p][2]
            nir == array[p][3]
        IN  Clip(Fraction(nir - red, nir + red + NdviEpsilon))]

\* reflectances of the visible bands and of RED and NIR: a dark pixel, the
\* smallest positive value, 0.2, 0.6 and 1.0
VisibleValues == {0, 300000}
RedNirValues == {0, 1, 200000, 600000, 1000000}
PixelValues ==
    {[b \in 0..3 |-> IF b = 0 THEN v[1] ELSE IF b = 1 THEN v[2]
                      ELSE IF b = 2 THEN v[3] ELSE v[4]] :
        v \in VisibleValues \X VisibleValues \X RedNirValues \X RedNirValues}

InitNdvi ==
    /\ aoi = <<0, 0, 0, 0>>
    /\ tparams = [resolution |-> 10, max_dim |-> 2500, buffer |-> 95]
    /\ tiles = <<>>
    /\ tile_info = <<>>
    /\ raw_tiles = EmptyDir
    /\ stitched = NoImage
    /\ profile = NoProfile
    /\ timeseries_jobs = <<>>
    /\ job_no = 0
    /\ tile_metadata = <<>>
    /\ selected_orbits = <<>>
    /\ failed_tiles = <<>>
    /\ best_orbit = NoOrbit
    /\ outputs = EmptyDir
    /\ raised = ""
    /\ ndvi_input \in [1..NdviPixels -> PixelValues]
    /\ ndvi = <<>>
    /\ intervals = <<>>
    /\ requests = <<>>
    /\ phase = "mosaic"

ComputeNdvi ==
    /\ phase = "mosaic"
    /\ ndvi' = compute_ndvi(ndvi_input)
    /\ phase' = "ndvi"
    /\ UNCHANGED <<aoi, tparams, tiles, tile_info, raw_tiles, stitched, profile,
                   timeseries_jobs, job_no, tile_metadata, selected_orbits, failed_tiles,
                   best_orbit, outputs, raised, ndvi_input, intervals, requests>>

SpecNdvi == InitNdvi /\ [][ComputeNdvi]_vars

----------------------------------------------------------------------------
(* C20 *)

Red(p) == ndvi_input[p][2]
Nir(p) == ndvi_input[p][3]

\* C20: for every pixel of the mosaic compute_ndvi returns
\* (NIR - RED) / (NIR + RED + 1e-6) clipped to [-1, 1], with RED the band of
\* index 2 and NIR the band of index 3; every output lies in [-1, 1]; for
\* RED = 0.2 and NIR = 0.6 the output is the unclipped quotient
\* 0.4 / 0.800001.
C20_NdviFormula ==
    phase = "ndvi" =>
        \A p \in DOMAIN ndvi_input :
            LET n == Nir(p) - Red(p)
                d == Nir(p) + Red(p) + NdviEpsilon
            IN  /\ ndvi[p] = IF n > d THEN Fraction(1, 1)
                              ELSE IF n < -d THEN Fraction(-1, 1)
                              ELSE Fraction(n, d)
                /\ ndvi[p].den > 0
                /\ -ndvi[p].den <= ndvi[p].num /\ ndvi[p].num <= ndvi[p].den
                /\ (Red(p) = 200000 /\ Nir(p) = 600000)
                      => ndvi[p] = Fraction(400000, 800001)

\* the index of a pixel with RED = 0.2 and NIR = 0.6, whose other bands hold
\* other values, has been computed
C20_Witness ==
    /\ phase = "ndvi"
    /\ \E p \in DOMAIN ndvi_input :
          /\ Red(p) = 200000 /\ Nir(p) = 600000
          /\ ndvi_input[p][0] = 300000 /\ ndvi_input[p][1] = 0
          /\ ndvi[p] = Fraction(400000, 800001)

----------------------------------------------------------------------------
(* Vegetation-index product: image_utils.generate_ndvi_products            *)
(*                                                                          *)
(* The last band of the mosaic is the scene classification (SCL).  Its     *)
(* values are kept in halves, so that the class codes 0..11 and the values  *)
(* halfway between two codes, which linear interpolation of the band gives, *)
(* are integers of the model.                                               *)

SclUnit == 2
CloudLikeClasses == {3, 8, 9, 10}

\* .astype(np.uint8) of a non-negative float: truncation, then 8 bits
AsUint8(v) == (v \div SclUnit) % 256

\* np.isin(stitched_image[..., -1].astype(np.uint8), [3, 8, 9, 10])
cloud_mask(array) ==
    [p \in DOMAIN array |->
        LET last == CHOOSE b \in DOMAIN array[p] : \A c \in DOMAIN array[p] : c <= b
        IN  AsUint8(array[p][last]) \in CloudLikeClasses]

\* np.where(cloud_mask, np.nan, ndvi)
ndvi_masked(array) ==
    [p \in DOMAIN array |->
        IF cloud_mask(array)[p] THEN [nan |-> TRUE, value |-> Fraction(0, 1)]
        ELSE [nan |-> FALSE, value |-> compute_ndvi(array)[p]]]

\* class codes 0, 1, 3, 4, 8, 10, 11 and the interpolated values 3.5 and 7.5
SclValues == {0, 2, 6, 7, 8, 15, 16, 20, 22}
ProductRedNirValues == {0, 200000, 600000}
ProductPixelValues ==
    {[b \in 0..4 |-> IF b < 2 THEN 0 ELSE IF b = 2 THEN v[1] ELSE IF b = 3 THEN v[2] ELSE v[3]] :
        v \in ProductRedNirValues \X ProductRedNirValues \X SclValues}

InitNdviProducts ==
    /\ aoi = <<0, 0, 0, 0>>
    /\ tparams = [resolution |-> 10, max_dim |-> 2500, buffer |-> 95]
    /\ tiles = <<>>
    /\ tile_info = <<<<NpyName("tile", 0), <<0, 0, 237500, 237500>>>>>>
    /\ raw_tiles = EmptyDir
    /\ stitched = [status |-> "ok", shape |-> <<1, NdviPixels, 5>>, rows |-> <<>>]
    /\ profile = NoProfile
    /\ timeseries_jobs = <<>>
    /\ job_no = 0
    /\ tile_metadata = <<>>
    /\ selected_orbits = <<>>
    /\ failed_tiles = <<>>
    /\ best_orbit = NoOrbit
    /\ outputs = EmptyDir
    /\ raised = ""
    /\ ndvi_input \in [1..NdviPixels -> ProductPixelValues]
    /\ ndvi = <<>>
    /\ intervals = <<>>
    /\ requests = <<>>
    /\ phase = "mosaic"

\* generate_ndvi_products on the mosaic: the masked index goes to ndvi.png and
\* ndvi.tif, the mask to ndvi_cloud_mask.png
CallGenerateNdviProducts ==
    /\ phase = "mosaic"
    /\ LET written == generate_ndvi_products(tile_info, stitched)
       IN  /\ ndvi' = IF written = {} THEN ndvi ELSE ndvi_masked(ndvi_input)
           /\ outputs' = [f \in {OutFile(HarnessJob, "imagery", NoTile, n) : n \in written} |->
                              IF f[4] = "ndvi_cloud_mask.png" THEN cloud_mask(ndvi_input)
                              ELSE ndvi_masked(ndvi_input)] @@ outputs
    /\ phase' = "ndvi_products"
    /\ UNCHANGED <<aoi, tparams, tiles, tile_info, raw_tiles, stitched, profile,
                   timeseries_jobs, job_no, tile_metadata, selected_orbits, failed_tiles,
                   best_orbit, raised, ndvi_input, intervals, requests>>

SpecNdviProducts == InitNdviProducts /\ [][CallGenerateNdviProducts]_vars

----------------------------------------------------------------------------
(* C21 *)

Scl(p) == ndvi_input[p][4]

\* the value of the classification band is one of the cloud-like class codes
IsCloudLikeClass(v) == \E c \in CloudLikeClasses : v = c * SclUnit

\* C21: in the vegetation-index product a pixel holds the not-a-number
\* sentinel exactly when the mosaic's scene-classification value at that
\* pixel is one of the classes 3, 8, 9, 10; every other pixel holds the
\* unmasked vegetation-index value.
C21_NanExactlyOnCloudClasses ==
    phase = "ndvi_products" =>
        \A p \in DOMAIN ndvi_input :
            /\ ndvi[p].nan <=> IsCloudLikeClass(Scl(p))
            /\ ~ndvi[p].nan => ndvi[p].value = compute_ndvi(ndvi_input)[p]

----------------------------------------------------------------------------
(* Time intervals: time_interval_utils.generate_time_intervals             *)
(*                                                                          *)
(* A date is the number of days since the first of January of EpochYear.   *)

EpochYear == 2023

IsLeap(y) == (y % 4 = 0 /\ y % 100 # 0) \/ y % 400 = 0
DaysInYear(y) == IF IsLeap(y) THEN 366 ELSE 365
DaysInMonth(y, m) ==
    IF m = 2 THEN (IF IsLeap(y) THEN 29 ELSE 28)
    ELSE IF m \in {4, 6, 9, 11} THEN 30 ELSE 31

RECURSIVE DaysBeforeYear(_)
DaysBeforeYear(y) == IF y <= EpochYear THEN 0 ELSE DaysBeforeYear(y - 1) + DaysInYear(y - 1)
RECURSIVE DaysBeforeMonth(_, _)
DaysBeforeMonth(y, m) == IF m <= 1 THEN 0 ELSE DaysBeforeMonth(y, m - 1) + DaysInMonth(y, m - 1)

\* date(y, m, d)
Date(y, m, d) == DaysBeforeYear(y) + DaysBeforeMonth(y, m) + (d - 1)

RECURSIVE YearOf(_, _)
YearOf(n, y) == IF n < DaysInYear(y) THEN y ELSE YearOf(n - DaysInYear(y), y + 1)
RECURSIVE MonthOf(_, _, _)
MonthOf(n, y, m) == IF n < DaysInMonth(y, m) THEN m ELSE MonthOf(n - DaysInMonth(y, m), y, m + 1)

\* the year, month and day of a date
Year(n) == YearOf(n, EpochYear)
Month(n) == MonthOf(n - DaysBeforeYear(Year(n)), Year(n), 1)
Day(n) == n - Date(Year(n), Month(n), 1) + 1

\* date + relativedelta(months=k): the day is cut to the length of the month
\* that is reached
AddMonths(n, k) ==
    LET total == Year(n) * 12 + (Month(n) - 1) + k
        y == total \div 12
        m == (total % 12) + 1
    IN  Date(y, m, Min(Day(n), DaysInMonth(y, m)))

\* daterange(start, end): every day from start to end
daterange(start, end) == [i \in 1..(end - start + 1) |-> start + (i - 1)]

\* a plausible slip: the interval ends on the first day of the next period
StepIntervals_end_on_next(current, end_date, months, acc) ==
    LET RECURSIVE Loop(_, _)
        Loop(cur, out) ==
            IF cur > end_date THEN out
            ELSE LET next_period == AddMonths(cur, months)
                 IN  Loop(next_period, Append(out, <<cur, Min(next_period, end_date)>>))
    IN  Loop(current, acc)

\* while current <= end_date: append (current, min(next - 1 day, end_date));
\* current = next, with next = current + relativedelta(months=months)
StepIntervals(current, end_date, months, acc) ==
    LET RECURSIVE Loop(_, _)
        Loop(cur, out) ==
            IF cur > end_date THEN out
            ELSE LET next_period == AddMonths(cur, months)
                     interval_end == Min(next_period - 1, end_date)
                 IN  Loop(next_period, Append(out, <<cur, interval_end>>))
    IN  Loop(current, acc)

\* generate_time_intervals: [raised, intervals]
generate_time_intervals(config) ==
    LET start_date == config.time_interval[1]
        end_date == config.time_interval[2]
        mode == IF config.time_series_mode = "" THEN "monthly" ELSE config.time_series_mode
    IN  IF start_date > end_date THEN [raised |-> "ValueError", intervals |-> <<>>]
        ELSE IF config.time_series_custom_intervals # <<>>
        THEN [raised |-> "", intervals |-> config.time_series_custom_intervals]
        ELSE IF mode = "daily"
        THEN [raised |-> "", intervals |-> [k \in 1..(end_date - start_date + 1) |->
                                              <<daterange(start_date, end_date)[k],
                                                daterange(start_date, end_date)[k]>>]]
        ELSE IF mode = "monthly"
        THEN [raised |-> "", intervals |-> StepIntervals(start_date, end_date, 1, <<>>)]
        ELSE IF mode = "quarterly"
        THEN [raised |-> "", intervals |-> StepIntervals(start_date, end_date, 3, <<>>)]
        ELSE [raised |-> "ValueError", intervals |-> <<>>]

----------------------------------------------------------------------------
(* Time-series harness: generate_time_intervals and create_timeseries_jobs *)

MaxSpan == 100

\* start dates at the beginning and at the end of months, before and in a leap
\* year; the end date lies Spans days after the start date
TimeseriesStarts == {Date(2023, 1, 1), Date(2023, 1, 31), Date(2023, 11, 30),
                     Date(2024, 1, 31), Date(2024, 2, 29)}
Spans == {-1, 0, 1, 27, 45, MaxSpan}
TimeSeriesModes == {"daily", "monthly", "quarterly", "", "weekly"}

\* time_series_custom_intervals: None, two intervals with a gap, or a list
\* that names one interval twice
CustomIntervals(start) ==
    { <<>>,
      << <<start, start + 9>>, <<start + 20, start + 29>> >>,
      << <<start, start + 9>>, <<start, start + 9>> >> }

InitTimeseries ==
    /\ aoi = <<0, 0, 0, 0>>
    /\ tparams = [resolution |-> 10, max_dim |-> 2500, buffer |-> 95]
    /\ tiles = <<>>
    /\ tile_info = <<>>
    /\ raw_tiles = EmptyDir
    /\ stitched = NoImage
    /\ \E start \in TimeseriesStarts, span \in Spans, mode \in TimeSeriesModes,
          has_job_id \in BOOLEAN :
       \E custom \in CustomIntervals(start) :
          LET config == [region |-> <<"region">>, bbox |-> <<0, 0, 0, 0>>, resolution |-> 10,
                         time_interval |-> <<start, start + span>>,
                         orbit_selection_strategy |-> "least_cloud",
                         time_series_mode |-> mode,
                         time_series_custom_intervals |-> custom,
                         job_id |-> <<>>, parent_job_id |-> <<>>]
          IN  profile = IF has_job_id THEN [config EXCEPT !.job_id = generate_job_id(config)]
                        ELSE config
    /\ timeseries_jobs = <<>>
    /\ job_no = 0
    /\ tile_metadata = <<>>
    /\ selected_orbits = <<>>
    /\ failed_tiles = <<>>
    /\ best_orbit = NoOrbit
    /\ outputs = EmptyDir
    /\ raised = ""
    /\ ndvi_input = <<>>
    /\ ndvi = <<>>
    /\ intervals = <<>>
    /\ requests = <<>>
    /\ phase = "profile"

CallGenerateTimeIntervals ==
    /\ phase = "profile"
    /\ LET got == generate_time_intervals(profile)
       IN  /\ intervals' = got.intervals
           /\ raised' = got.raised
    /\ phase' = "intervals"
    /\ UNCHANGED <<aoi, tparams, tiles, tile_info, raw_tiles, stitched, profile,
                   timeseries_jobs, job_no, tile_metadata, selected_orbits, failed_tiles,
                   best_orbit, outputs, ndvi_input, ndvi, requests>>

\* create_timeseries_jobs(profile): generate_time_intervals, then one
\* sub-profile per interval
CallCreateTimeseriesJobs ==
    /\ phase = "profile"
    /\ LET got == generate_time_intervals(profile)
       IN  /\ intervals' = got.intervals
           /\ raised' = got.raised
           /\ timeseries_jobs' = IF got.raised # "" THEN timeseries_jobs
                                  ELSE create_timeseries_jobs(profile, got.intervals)
    /\ phase' = "jobs"
    /\ UNCHANGED <<aoi, tparams, tiles, tile_info, raw_tiles, stitched, profile,
                   job_no, tile_metadata, selected_orbits, failed_tiles,
                   best_orbit, outputs, ndvi_input, ndvi, requests>>

NextTimeseries == CallGenerateTimeIntervals \/ CallCreateTimeseriesJobs

SpecTimeseries == InitTimeseries /\ [][NextTimeseries]_vars

----------------------------------------------------------------------------
(* C22 *)

start_date == profile.time_interval[1]
end_date == profile.time_interval[2]

ModeInEffect ==
    /\ profile.time_series_mode \in {"daily", "monthly", "quarterly"}
    /\ profile.time_series_custom_intervals = <<>>

\* the intervals partition [a, b]: contiguous, ordered, from a to b
Partitions(ivs, a, b) ==
    /\ ivs # <<>>
    /\ ivs[1][1] = a
    /\ ivs[Len(ivs)][2] = b
    /\ \A k \in 1..Len(ivs) : ivs[k][1] <= ivs[k][2]
    /\ \A k \in 1..(Len(ivs) - 1) : ivs[k + 1][1] = ivs[k][2] + 1

----------------------------------------------------------------------------
(* C23 *)

\* C23: create_timeseries_jobs returns exactly one sub-job per generated time
\* interval, in interval order, each with that interval as its time_interval
\* and with parent_job_id equal to generate_job_id of the parent profile.
C23_OneJobPerIntervalUnderParent ==
    (phase = "jobs" /\ raised = "") =>
        /\ Len(timeseries_jobs) = Len(intervals)
        /\ \A k \in 1..Len(timeseries_jobs) :
              /\ timeseries_jobs[k].time_interval = intervals[k]
              /\ timeseries_jobs[k].parent_job_id = generate_job_id(profile)

----------------------------------------------------------------------------
(* C24 *)

BBoxOf(fname) == tile_info[CHOOSE k \in 1..Len(tile_info) : tile_info[k][1] = fname][2]

RowsLeftToRight(rows) ==
    \A r \in 1..Len(rows) : \A k \in 1..(Len(rows[r]) - 1) :
        min_x(BBoxOf(rows[r][k])) <= min_x(BBoxOf(rows[r][k + 1]))

RowsTopToBottom(rows) ==
    \A r \in 1..(Len(rows) - 1) :
        \A k \in 1..Len(rows[r]), l \in 1..Len(rows[r + 1]) :
            min_y(BBoxOf(rows[r][k])) > min_y(BBoxOf(rows[r + 1][l]))

\* C24: after stitch_tiles has sorted and grouped its input, the tiles of
\* every row are in ascending minimum-longitude order and the rows are in
\* descending minimum-latitude order, also when minimum latitudes within a
\* row differ by less than the epsilon.
C24_ReadingOrder ==
    phase = "stitched" =>
        /\ RowsLeftToRight(GroupRows(tile_info))
        /\ RowsTopToBottom(GroupRows(tile_info))

----------------------------------------------------------------------------
(* Per-tile retrieval requests of download_orbits_for_tiles                *)

\* the orbit stored in selected_orbits under tile idx's own prefix, if any
OwnOrbits(idx) ==
    { selected_orbits[k][2] : k \in { j \in 1..Len(selected_orbits) :
          selected_orbits[j][1] = get_tile_prefix(profile, idx) } }

RequestsFor(idx) == { k \in 1..Len(requests) : requests[k].idx = idx }

\* C25: download_orbits_for_tiles requests the raster of tile idx only if
\* a selected orbit is stored under that tile's own prefix, and then once,
\* for that tile's bbox, with time interval (d, d), d the date of that
\* orbit; a tile without a selected orbit is never requested, is in the
\* failed list with its idx, and the tiles after it are still processed
C25_RequestsFollowOwnSelectedOrbit ==
    (phase = "downloaded" /\ raised = "") =>
        \A idx \in 0..(Len(tiles) - 1) :
            /\ OwnOrbits(idx) = {} =>
                  /\ RequestsFor(idx) = {}
                  /\ \E k \in 1..Len(failed_tiles) : failed_tiles[k] = <<idx, tiles[idx + 1]>>
            /\ OwnOrbits(idx) # {} =>
                  /\ Cardinality(RequestsFor(idx)) = 1
                  /\ \A k \in RequestsFor(idx) :
                        /\ requests[k].prefix = get_tile_prefix(profile, idx)
                        /\ requests[k].bbox = tiles[idx + 1]
                        /\ \E o \in OwnOrbits(idx) :
                              requests[k].time_interval = <<o.orbit_date, o.orbit_date>>

\* two tiles, the first without a selected orbit, the second with one of
\* another day than the first position's: the second is still requested
C25_Witness ==
    /\ phase = "downloaded" /\ raised = ""
    /\ Len(tiles) = 2
    /\ OwnOrbits(0) = {} /\ OwnOrbits(1) # {}
    /\ Len(requests) = 1
    /\ requests[1].idx = 1
    /\ requests[1].time_interval = <<OrbitDay(1), OrbitDay(1)>>
    /\ failed_tiles[1] = <<0, tiles[1]>>

----------------------------------------------------------------------------
(* Tile identity across the stages of a job, for region names of several   *)
(* shapes                                                                   *)

\* region names: one word, words with a space, words with "_" and a space
\* and "tile" among them
Regions == { <<"Canterbury">>, <<"Tile", " ", "Hill">>,
             <<"NZ", "_", "south", " ", "tile">> }

RegionAois == { <<0, 0, 2000000, 2000000>>, <<0, 0, 4000000, 2000000>>,
                <<0, 0, 2000000, 4000000>> }

\* the job loop with one job of a profile of any of the regions
InitRegions ==
    /\ \E r \in Regions, a \in RegionAois :
          LET config == [region |-> r, bbox |-> a, resolution |-> 10,
                         time_interval |-> <<1, 1>>,
                         orbit_selection_strategy |-> "least_cloud",
                         job_id |-> <<>>, parent_job_id |-> <<>>]
          IN  profile = [config EXCEPT !.job_id = generate_job_id(config)]
    /\ intervals = << <<1, 1>> >>
    /\ timeseries_jobs = create_timeseries_jobs(profile, intervals)
    /\ requests = <<>>
    /\ job_no = 0
    /\ aoi = profile.bbox
    /\ tparams = [resolution |-> profile.resolution, max_dim |-> DefaultMaxDim,
                  buffer |-> DefaultBuffer]
    /\ tiles = <<>>
    /\ tile_metadata = <<>>
    /\ selected_orbits = <<>>
    /\ tile_info = <<>>
    /\ failed_tiles = <<>>
    /\ stitched = NoImage
    /\ best_orbit = NoOrbit
    /\ raw_tiles = EmptyDir
    /\ outputs = EmptyDir
    /\ raised = ""
    /\ phase = "start"
    /\ ndvi_input = <<>>
    /\ ndvi = <<>>

SpecRegions == InitRegions /\ [][Next]_vars

WorkflowTilePath == OutFile(job.job_id, "metadata", NoTile, "workflow_tile_metadata.json")

AfterDiscovery ==
    phase \in {"discovered", "selected", "product_metadata", "downloaded", "stitched",
               "job_done"}

\* C26: for every region and tile index i, the bbox that
\* select_orbits_for_tiles looks up for the tile keyed {region}_tile{i} is
\* the bbox of the i-th tile of the tessellation, written by
\* write_workflow_tile_metadata under the key tile{i}, and it is the bbox
\* discovery queried and retrieval requests under that prefix
C26_TileIdentityAcrossStages ==
    AfterDiscovery =>
        /\ WorkflowTilePath \in DOMAIN outputs
        /\ \A k \in 1..Len(tile_metadata) :
              LET tile_prefix == tile_metadata[k][1]
                  key == normalized_tile_key(tile_prefix)
              IN  /\ tile_prefix = get_tile_prefix(job, k - 1)
                  /\ key = TileKey(k - 1)
                  /\ key \in DOMAIN outputs[WorkflowTilePath]
                  /\ outputs[WorkflowTilePath][key] = tiles[k]
                  /\ tile_metadata[k][2].has_tile_bbox =>
                        tile_metadata[k][2].tile_bbox = tiles[k]
        /\ \A k \in 1..Len(requests) :
              /\ requests[k].prefix = get_tile_prefix(job, requests[k].idx)
              /\ requests[k].bbox = tiles[requests[k].idx + 1]
              /\ requests[k].bbox =
                    outputs[WorkflowTilePath][normalized_tile_key(requests[k].prefix)]

\* two tiles of a region whose name has a space, "_" and "tile" in it, both
\* discovered, selected and requested
C26_Witness ==
    /\ phase = "downloaded"
    /\ job.region = <<"NZ", "_", "south", " ", "tile">>
    /\ Len(tiles) = 2
    /\ Len(selected_orbits) = 2
    /\ Len(requests) = 2
    /\ requests[2].prefix = <<"nz", "_", "south", "_", "tile", "_", "tile", "1">>

----------------------------------------------------------------------------
(* Order of the stages of a job and the skipped job                         *)

\* the stage a phase is reached by
StageOrder ==
    << "prepared", "tiled", "discovered", "selected", "product_metadata", "downloaded",
       "stitched", "job_done" >>

StageNo(p) == CHOOSE k \in 1..Len(StageOrder) : StageOrder[k] = p

BetweenJobs == {"start", "job_done", "job_skipped"}

NoCandidateOrbit == \A k \in 1..Len(tile_metadata) : tile_metadata[k][2].orbits = <<>>

\* nothing of selection, retrieval, stitching or product generation is there
NothingAfterDiscovery ==
    /\ selected_orbits = <<>>
    /\ requests = <<>>
    /\ tile_info = <<>> /\ failed_tiles = <<>>
    /\ stitched = NoImage
    /\ \A f \in DOMAIN outputs \cup DOMAIN raw_tiles : ~BelowDir(f[1], job.job_id)

\* C27: within a job the stages run in the order tessellation, discovery,
\* selection, retrieval, stitching, product generation, each at most once
\* and none before the one ahead of it; when no tile has a candidate orbit
\* the job's output directory is removed, none of the later stages runs for
\* that job, and the loop goes on with the next job
C27_StagesInOrderAndSkip ==
    [][ /\ (phase \in BetweenJobs /\ phase' # phase) =>
              \/ phase' = "prepared" /\ job_no' = job_no + 1
              \/ phase' = "finished" /\ job_no = Len(timeseries_jobs)
        /\ (phase \notin BetweenJobs /\ phase' # phase) =>
              /\ job_no' = job_no
              /\ \/ phase' = "crashed"
                 \/ phase = "discovered" /\ phase' = "job_skipped"
                 \/ /\ phase' \in {StageOrder[k] : k \in 1..Len(StageOrder)}
                    /\ StageNo(phase') = StageNo(phase) + 1
        /\ (phase = "discovered" /\ NoCandidateOrbit) =>
              /\ phase' = "job_skipped"
              /\ NothingAfterDiscovery'
        /\ (phase = "job_skipped" /\ job_no < Len(timeseries_jobs)) =>
              phase' = "prepared"
        /\ phase' = "selected" => ~NoCandidateOrbit
      ]_vars

\* the first job was skipped and left nothing, the second one ran to its
\* products
C27_Witness ==
    /\ phase = "job_done"
    /\ job_no = 2
    /\ \A f \in DOMAIN outputs \cup DOMAIN raw_tiles :
          ~BelowDir(f[1], timeseries_jobs[1].job_id)
    /\ \E f \in FilesOfJob(outputs, job.job_id) : f[2] = "imagery"

----------------------------------------------------------------------------
(* Candidates without sub-scenes or footprint geometry                     *)

\* C28: with the least_cloud strategy select_best_orbit returns a selected
\* orbit whenever at least one candidate meets the coverage threshold,
\* whatever the other candidates hold: a candidate without sub-scenes or
\* without footprint geometry is not eligible and does not make the
\* selection fail
C28_IneligibleCandidateIgnored ==
    (/\ phase = "selected"
     /\ profile.orbit_selection_strategy = "least_cloud"
     /\ Survivors # {}) => best_orbit.status = "ok"

----------------------------------------------------------------------------
(* The failed list of download_orbits_for_tiles                             *)

\* C29: every entry (idx, tile) of the failed list returned by
\* download_orbits_for_tiles has idx equal to the position of tile in the
\* input tile list, for a missing selected orbit as for a failed retrieval
C29_FailedIdxIsInputPosition ==
    (phase = "downloaded" /\ raised = "") =>
        \A k \in 1..Len(failed_tiles) :
            /\ failed_tiles[k][1] \in 0..(Len(tiles) - 1)
            /\ tiles[failed_tiles[k][1] + 1] = failed_tiles[k][2]

----------------------------------------------------------------------------
(* Job ids and output directories of the jobs of a series                   *)

\* C30: the sub-jobs that create_timeseries_jobs returns have pairwise
\* distinct job ids, hence pairwise distinct output directories none of
\* which lies inside another, so that removing one job's directory leaves
\* the files of every other job of the series
C30_DistinctJobDirectories ==
    (phase = "jobs" /\ raised = "") =>
        \A i, j \in 1..Len(timeseries_jobs) :
            i # j =>
                /\ timeseries_jobs[i].job_id # timeseries_jobs[j].job_id
                /\ ~BelowDir(timeseries_jobs[i].job_id, timeseries_jobs[j].job_id)

====
